---- MODULE Spec2Model ----
(***************************************************************************)
(* A model of fin-parser: three codecs (bin, csv, text) for one            *)
(* Transaction type, the TxReader/TxWriter dispatcher and the read-one/     *)
(* write-one loops built on them.                                           *)
(*                                                                          *)
(* Streams are sequences of bytes (0..255).  A Rust String is the sequence  *)
(* of its UTF-8 bytes.  64-bit integers are modelled with WordBits bits:    *)
(* the value range is scaled, the on-wire field widths (8 and 4 bytes) are  *)
(* the real ones.                                                           *)
(***************************************************************************)
EXTENDS Integers, Sequences, FiniteSets, TLC

VARIABLES
    stream,     \* the bytes of the source a reader reads from
    fault,      \* [at, kind]: the read of byte `at` fails with io::ErrorKind `kind` (at = 0: never)
    reader,     \* the TxReader: [fmt, pos, state, header]
    log,        \* the results of the read_transaction calls on `reader`, in call order
    writer,     \* the TxWriter: [fmt, header]
    sink,       \* the bytes the writer has written
    written,    \* the Transactions of the successful write_transaction calls, in call order
    pc,         \* where the driving program is
    stage,      \* the conversion under way in a chain of conversions (0: none)
    rhs_stream, \* the bytes of the second source of a comparison
    rhs_reader, \* the TxReader of the second source
    printed,    \* the lines the comparer has printed, in order
    input       \* what the run started from (kept for the statements)

vars == <<stream, fault, reader, log, writer, sink, written, pc, stage, rhs_stream, rhs_reader,
          printed, input>>

----------------------------------------------------------------------------
(* Bounds of the model *)

\* the number of bits of the model's u64 / i64
WordBits == 6
\* the most write_transaction calls of a run
MaxWrites == 2
\* the most read_transaction calls on one reader
MaxReads == 4
\* the longest description of the round-trip runs, in bytes
MaxDescLen == 2
\* the most blank lines between two blocks of a text stream
MaxBlank == 3

----------------------------------------------------------------------------
(* Bytes the tokenizers test for *)

SP == 32
NL == 10
QUOTE == 34
HASH == 35
COMMA == 44
COLON == 58
BSLASH == 92
PLUS == 43
MINUS == 45
DIGIT0 == 48

\* char::is_whitespace below U+0080
AsciiWhitespace == {9, 10, 11, 12, 13, 32}

\* src/csv_findata.rs 7..24 (constants.rs): the field names and enum tokens
TX_ID == <<84, 88, 95, 73, 68>>
TX_TYPE == <<84, 88, 95, 84, 89, 80, 69>>
FROM_USER_ID == <<70, 82, 79, 77, 95, 85, 83, 69, 82, 95, 73, 68>>
TO_USER_ID == <<84, 79, 95, 85, 83, 69, 82, 95, 73, 68>>
AMOUNT == <<65, 77, 79, 85, 78, 84>>
TIMESTAMP == <<84, 73, 77, 69, 83, 84, 65, 77, 80>>
STATUS == <<83, 84, 65, 84, 85, 83>>
DESCRIPTION == <<68, 69, 83, 67, 82, 73, 80, 84, 73, 79, 78>>

DEPOSIT == <<68, 69, 80, 79, 83, 73, 84>>
TRANSFER == <<84, 82, 65, 78, 83, 70, 69, 82>>
WITHDRAWAL == <<87, 73, 84, 72, 68, 82, 65, 87, 65, 76>>

SUCCESS == <<83, 85, 67, 67, 69, 83, 83>>
FAILURE == <<70, 65, 73, 76, 85, 82, 69>>
PENDING == <<80, 69, 78, 68, 73, 78, 71>>

CNT_VALUES == 8

HEADER_VALUES == <<TX_ID, TX_TYPE, FROM_USER_ID, TO_USER_ID, AMOUNT, TIMESTAMP, STATUS, DESCRIPTION>>

CSV_FORMAT == "csv"
TEXT_FORMAT == "text"
BIN_FORMAT == "bin"

MAGIC == 1498432078

----------------------------------------------------------------------------
(* Integers of WordBits bits *)

RECURSIVE Pow2(_)
Pow2(n) == IF n = 0 THEN 1 ELSE 2 * Pow2(n - 1)

U64Max == Pow2(WordBits) - 1
I64Max == Pow2(WordBits - 1) - 1
I64Min == -Pow2(WordBits - 1)

\* `x as u64` of an i64
AsU64(x) == x % Pow2(WordBits)

\* an `x as i64` that saturates at the largest i64
AsI64Saturating(x) == IF x > I64Max THEN I64Max ELSE x

\* `x as i64` of a u64
AsI64(x) == IF x > I64Max THEN x - Pow2(WordBits) ELSE x

\* chrono accepts the milliseconds of its own range of instants, a proper
\* part of the i64 range (scaled with the word)
MaxInstantMillis == I64Max - Pow2(WordBits - 3)
MinInstantMillis == -MaxInstantMillis

----------------------------------------------------------------------------
(* Results *)

Ok(v) == [ok |-> TRUE, val |-> v]
Fail(e) == [ok |-> FALSE, err |-> e]

\* ParsError
WrongFormat(msg, arg) == [type |-> "WrongFormat", msg |-> msg, arg |-> arg]
IoError(kind) == [type |-> "IoError", msg |-> kind, arg |-> <<>>]
EndOfStream == [type |-> "EndOfStream", msg |-> "", arg |-> <<>>]

\* a conversion that knows no end of the stream: every io::Error is an IoError
FromIoErrorAnyKind(kind) == IoError(kind)

\* impl From<io::Error> for ParsError
FromIoError(kind) == IF kind = "UnexpectedEof" THEN EndOfStream ELSE IoError(kind)

\* impl From<Utf8Error> for ParsError
FromUtf8Error == WrongFormat("Utf8Error", <<>>)

\* impl From<ParseIntError> for ParsError
FromParseIntError(text) == WrongFormat("ParseIntError", text)

----------------------------------------------------------------------------
(* Strings *)

\* a UTF-8 continuation byte
IsCont(x) == x >= 128 /\ x <= 191

\* the number of continuation bytes the lead byte x asks for (-1: no lead byte)
ContCount(x) ==
    IF x < 128 THEN 0
    ELSE IF x >= 194 /\ x <= 223 THEN 1
    ELSE IF x >= 224 /\ x <= 239 THEN 2
    ELSE IF x >= 240 /\ x <= 244 THEN 3
    ELSE -1

\* the byte y may follow the lead byte x (no overlong form, no surrogate,
\* nothing above U+10FFFF)
SecondOk(x, y) ==
    CASE x = 224 -> y >= 160 /\ y <= 191
      [] x = 237 -> y >= 128 /\ y <= 159
      [] x = 240 -> y >= 144 /\ y <= 191
      [] x = 244 -> y >= 128 /\ y <= 143
      [] OTHER -> IsCont(y)

\* std::str::from_utf8(b).is_ok(): every lead byte has its continuation
\* bytes and every continuation byte belongs to a lead byte
IsUtf8(b) ==
    \A i \in 1..Len(b) :
        IF IsCont(b[i])
        THEN \E k \in 1..3 :
                /\ i - k >= 1
                /\ ContCount(b[i - k]) >= k
                /\ \A j \in 1..(k - 1) : IsCont(b[i - j])
        ELSE /\ ContCount(b[i]) >= 0
             /\ \A k \in 1..ContCount(b[i]) : i + k <= Len(b) /\ IsCont(b[i + k])
             /\ ContCount(b[i]) >= 1 => SecondOk(b[i], b[i + 1])

\* char::is_whitespace of the character that starts at byte i of s
WhitespaceAt(s, i) ==
    LET n == Len(s)
    IN  \/ s[i] \in AsciiWhitespace
        \/ i + 1 <= n /\ s[i] = 194 /\ s[i + 1] \in {133, 160}
        \/ i + 2 <= n /\ s[i] = 225 /\ s[i + 1] = 154 /\ s[i + 2] = 128
        \/ i + 2 <= n /\ s[i] = 226 /\ s[i + 1] = 128
                      /\ s[i + 2] \in (128..138) \cup {168, 169, 175}
        \/ i + 2 <= n /\ s[i] = 226 /\ s[i + 1] = 129 /\ s[i + 2] = 159
        \/ i + 2 <= n /\ s[i] = 227 /\ s[i + 1] = 128 /\ s[i + 2] = 128

\* the bytes of s from the character that starts at byte first to the one
\* that starts at byte last
CharsFromTo(s, first, last) == SubSeq(s, first, last + ContCount(s[last]))

\* the bytes of s from its first character of `solid` to its last one
TrimTo(s, solid) ==
    IF solid = {} THEN <<>>
    ELSE CharsFromTo(s, CHOOSE i \in solid : \A j \in solid : i <= j,
                        CHOOSE i \in solid : \A j \in solid : j <= i)

\* str::trim of well-formed UTF-8: from the first character that is no
\* whitespace to the last one
Trim(s) == TrimTo(s, {i \in 1..Len(s) : ~IsCont(s[i]) /\ ~WhitespaceAt(s, i)})

\* u64::to_string / i64::to_string (Digits; IntToString adds the sign)
RECURSIVE Digits(_)
Digits(n) == IF n < 10 THEN <<DIGIT0 + n>> ELSE Digits(n \div 10) \o <<DIGIT0 + (n % 10)>>

IntToString(n) == IF n < 0 THEN <<MINUS>> \o Digits(-n) ELSE Digits(n)

\* the value of the decimal digits s[i..] added to acc, or -1 at a byte that
\* is no digit or once the value passes max
RECURSIVE ParseDigits(_, _, _, _)
ParseDigits(s, i, acc, max) ==
    IF i > Len(s) THEN acc
    ELSE IF s[i] < DIGIT0 \/ s[i] > DIGIT0 + 9 THEN -1
    ELSE LET v == acc * 10 + (s[i] - DIGIT0)
         IN  IF v > max THEN -1 ELSE ParseDigits(s, i + 1, v, max)

\* the digits of s after its sign
Unsigned(s) == IF s # <<>> /\ s[1] \in {PLUS, MINUS} THEN Tail(s) ELSE s

\* the result of str::parse of s, v the value of its digits
Parsed(s, v) == IF v < 0 THEN Fail(FromParseIntError(s)) ELSE Ok(v)

\* str::parse::<u64>
ParseU64(s) ==
    IF s = <<>> \/ s[1] = MINUS \/ Unsigned(s) = <<>> THEN Fail(FromParseIntError(s))
    ELSE Parsed(s, ParseDigits(Unsigned(s), 1, 0, U64Max))

\* the result of str::parse::<i64> of the negative s, v the value of its digits
Negated(s, v) == IF v < 0 THEN Fail(FromParseIntError(s)) ELSE Ok(-v)

\* str::parse::<i64>
ParseI64(s) ==
    IF s = <<>> \/ Unsigned(s) = <<>> THEN Fail(FromParseIntError(s))
    ELSE IF s[1] = MINUS THEN Negated(s, ParseDigits(Unsigned(s), 1, 0, -I64Min))
    ELSE Parsed(s, ParseDigits(Unsigned(s), 1, 0, I64Max))

StartsWithQuote(s) == s # <<>> /\ s[1] = QUOTE
EndsWithQuote(s) == s # <<>> /\ s[Len(s)] = QUOTE

\* utils::remove_quotes: the slice [1 .. len-1] of a one-byte string panics
RemoveQuotes(s) ==
    IF StartsWithQuote(s) /\ EndsWithQuote(s)
    THEN IF Len(s) < 2 THEN [panic |-> TRUE, val |-> <<>>]
         ELSE [panic |-> FALSE, val |-> SubSeq(s, 2, Len(s) - 1)]
    ELSE [panic |-> FALSE, val |-> s]

\* format!("\"{}\"", description)
AddQuotes(s) == <<QUOTE>> \o s \o <<QUOTE>>

----------------------------------------------------------------------------
(* Transaction *)

\* DateTime<Utc>: the whole milliseconds since the epoch and whether a
\* sub-millisecond part is present
Instant(millis, submilli) == [millis |-> millis, submilli |-> submilli]

\* DateTime::timestamp_millis
TimestampMillis(t) == t.millis

\* DateTime::from_timestamp_millis: None outside the range of instants
FromTimestampMillis(m) ==
    IF m >= MinInstantMillis /\ m <= MaxInstantMillis
    THEN Ok(Instant(m, 0))
    ELSE Fail(<<>>)

Transaction(tx_id, tx_type, from_user_id, to_user_id, amount, timestamp, status, description) ==
    [tx_id |-> tx_id, tx_type |-> tx_type, from_user_id |-> from_user_id,
     to_user_id |-> to_user_id, amount |-> amount, timestamp |-> timestamp,
     status |-> status, description |-> description]

\* Result<Option<Transaction>, ParsError> of a read call; Panic: the call unwinds
Record(tx) == [kind |-> "Record", val |-> tx]
EndOfData == [kind |-> "EndOfData", val |-> <<>>]
Error(e) == [kind |-> "Error", val |-> e]
Panic == [kind |-> "Panic", val |-> <<>>]

\* utils::read_byte on a stream whose read of byte flt.at fails
ReadByte(s, flt, pos) ==
    IF flt.at = pos THEN Fail(FromIoError(flt.kind))
    ELSE IF pos > Len(s) THEN Fail(EndOfStream)
    ELSE Ok(s[pos])

----------------------------------------------------------------------------
(* CSV codec: csv_format.rs *)

CsvToken(type, some, val) == [type |-> type, some |-> some, val |-> val]

Scanned(res, pos, state) == [res |-> res, pos |-> pos, state |-> state]

\* the locals of one Parser::get_next_token call: self.state, buf, the next
\* byte to read, and the value returned (<<>>: still in the loop)
CsvScan(state, buf, pos, tok) == [state |-> state, buf |-> buf, pos |-> pos, tok |-> tok]

\* a tokenizer for which a backslash in a quoted value is a byte like any other
CsvStepNoEscape(c, byte) ==
    LET go(state, buf) == CsvScan(state, buf, c.pos + 1, <<>>)
        return(state, tok) == CsvScan(state, c.buf, c.pos + 1, <<tok>>)
    IN  CASE c.state \in {"WaitStartRecord", "WaitStartValue"} ->
                IF byte = SP \/ (byte = NL /\ c.state = "WaitStartRecord") THEN go(c.state, c.buf)
                ELSE IF byte = QUOTE THEN go("WaitEndString", Append(c.buf, byte))
                ELSE go("WaitEndRegular", Append(c.buf, byte))
          [] c.state = "WaitEndRegular" ->
                IF byte = COMMA
                THEN IF ~IsUtf8(c.buf) THEN return(c.state, Fail(FromUtf8Error))
                     ELSE return("WaitStartValue", Ok(CsvToken("Value", TRUE, Trim(c.buf))))
                ELSE IF byte = NL
                THEN IF ~IsUtf8(c.buf) THEN return(c.state, Fail(FromUtf8Error))
                     ELSE return("WaitStartRecord", Ok(CsvToken("EndOfLine", TRUE, Trim(c.buf))))
                ELSE go(c.state, Append(c.buf, byte))
          [] c.state = "WaitEndString" ->
                IF byte = QUOTE THEN go("WaitEndRegular", Append(c.buf, byte))
                ELSE go(c.state, Append(c.buf, byte))
          [] c.state = "WaitEscaped" ->
                go("WaitEndString", Append(c.buf, byte))

\* Parser::get_next_token: the body of the loop for one byte read (match self.state)
CsvStep(c, byte) ==
    LET go(state, buf) == CsvScan(state, buf, c.pos + 1, <<>>)
        return(state, tok) == CsvScan(state, c.buf, c.pos + 1, <<tok>>)
    IN  CASE c.state = "WaitStartRecord" ->
                IF byte = SP \/ byte = NL THEN go(c.state, c.buf)
                ELSE IF byte = QUOTE THEN go("WaitEndString", Append(c.buf, byte))
                ELSE go("WaitEndRegular", Append(c.buf, byte))
          [] c.state = "WaitStartValue" ->
                IF byte = SP THEN go(c.state, c.buf)
                ELSE IF byte = QUOTE THEN go("WaitEndString", Append(c.buf, byte))
                ELSE go("WaitEndRegular", Append(c.buf, byte))
          [] c.state = "WaitEndRegular" ->
                IF byte = COMMA
                THEN IF ~IsUtf8(c.buf) THEN return(c.state, Fail(FromUtf8Error))
                     ELSE return("WaitStartValue", Ok(CsvToken("Value", TRUE, Trim(c.buf))))
                ELSE IF byte = NL
                THEN IF ~IsUtf8(c.buf) THEN return(c.state, Fail(FromUtf8Error))
                     ELSE return("WaitStartRecord", Ok(CsvToken("EndOfLine", TRUE, Trim(c.buf))))
                ELSE go(c.state, Append(c.buf, byte))
          [] c.state = "WaitEndString" ->
                IF byte = BSLASH THEN go("WaitEscaped", c.buf)
                ELSE IF byte = QUOTE THEN go("WaitEndRegular", Append(c.buf, byte))
                ELSE go(c.state, Append(c.buf, byte))
          [] c.state = "WaitEscaped" ->
                go("WaitEndString", Append(c.buf, byte))

\* the loop of Parser::get_next_token over the bytes lo..hi, left when a
\* value is returned (the range is halved to keep the evaluation shallow)
RECURSIVE CsvLoop(_, _, _, _)
CsvLoop(s, lo, hi, c) ==
    IF lo > hi \/ c.tok # <<>> THEN c
    ELSE IF lo = hi THEN CsvStep(c, s[lo])
    ELSE CsvLoop(s, ((lo + hi) \div 2) + 1, hi, CsvLoop(s, lo, (lo + hi) \div 2, c))

\* the last byte of s from pos on that read_byte returns
LastReadable(s, flt, pos) ==
    IF flt.at >= pos /\ flt.at <= Len(s) THEN flt.at - 1 ELSE Len(s)

\* Parser::get_next_token when read_byte fails with err: the end of the
\* stream returns what buf holds, any other error is returned
CsvNoByte(c, err) ==
    IF err.type # "EndOfStream" THEN Scanned(Fail(err), c.pos, c.state)
    ELSE IF ~IsUtf8(c.buf) THEN Scanned(Fail(FromUtf8Error), c.pos, c.state)
    ELSE Scanned(Ok(CsvToken("EndOfStream", Trim(c.buf) # <<>>, Trim(c.buf))), c.pos, c.state)

\* what Parser::get_next_token returns, c the locals its loop ends with
CsvReturn(s, flt, c) ==
    IF c.tok # <<>> THEN Scanned(c.tok[1], c.pos, c.state)
    ELSE CsvNoByte(c, ReadByte(s, flt, c.pos).err)

\* Parser::get_next_token, called in state st with byte pos the next to read
CsvGetNextToken(s, flt, pos, st) ==
    CsvReturn(s, flt, CsvLoop(s, pos, LastReadable(s, flt, pos), CsvScan(st, <<>>, pos, <<>>)))

RECURSIVE CsvReadValues(_, _, _, _, _)

\* CsvTxReader::read_values: the match on the token t, with res collected
CsvPushToken(s, flt, t, res) ==
    IF ~t.res.ok THEN t
    ELSE CASE t.res.val.type = "Value" ->
                CsvReadValues(s, flt, t.pos, t.state, Append(res, t.res.val.val))
           [] t.res.val.type = "EndOfLine" ->
                Scanned(Ok(Append(res, t.res.val.val)), t.pos, t.state)
           [] t.res.val.type = "EndOfStream" ->
                Scanned(Ok(IF t.res.val.some THEN Append(res, t.res.val.val) ELSE res),
                        t.pos, t.state)

\* CsvTxReader::read_values, with res collected
CsvReadValues(s, flt, pos, st, res) ==
    CsvPushToken(s, flt, CsvGetNextToken(s, flt, pos, st), res)

\* the column map: name -> index (from 1)
HeaderMap(names) == [n \in {names[i] : i \in DOMAIN names} |->
                        CHOOSE i \in DOMAIN names : names[i] = n]

\* TxType::from_str / Status::from_str
TxTypeOf(name) ==
    CASE name = DEPOSIT -> "Deposit"
      [] name = TRANSFER -> "Transfer"
      [] name = WITHDRAWAL -> "Withdrawal"

StatusOf(name) ==
    CASE name = SUCCESS -> "Success"
      [] name = FAILURE -> "Failure"
      [] name = PENDING -> "Pending"

\* the Transaction of the parsed fields, or the error of the first that failed
CsvBuild(tx_id, tx_type, from_user_id, to_user_id, amount, millis, timestamp, status, description) ==
    IF ~tx_id.ok THEN Error(tx_id.err)
    ELSE IF tx_type \notin {DEPOSIT, TRANSFER, WITHDRAWAL}
    THEN Error(WrongFormat("WrongTxType", tx_type))
    ELSE IF ~from_user_id.ok THEN Error(from_user_id.err)
    ELSE IF ~to_user_id.ok THEN Error(to_user_id.err)
    ELSE IF ~amount.ok THEN Error(amount.err)
    ELSE IF ~millis.ok THEN Error(millis.err)
    ELSE IF ~timestamp.ok THEN Error(WrongFormat("WrongTimestamp", IntToString(millis.val)))
    ELSE IF status \notin {SUCCESS, FAILURE, PENDING}
    THEN Error(WrongFormat("WrongStatus", status))
    ELSE IF ~(StartsWithQuote(description) /\ EndsWithQuote(description))
    THEN Error(WrongFormat("WrongDescription", description))
    ELSE IF RemoveQuotes(description).panic THEN Panic
    ELSE Record(Transaction(tx_id.val, TxTypeOf(tx_type), from_user_id.val, to_user_id.val,
                            amount.val, timestamp.val, StatusOf(status),
                            RemoveQuotes(description).val))

\* the timestamp of the parsed TIMESTAMP field
MillisToInstant(millis) ==
    IF millis.ok THEN FromTimestampMillis(AsI64(millis.val)) ELSE Fail(<<>>)

\* CsvTxRecord::to_transaction
CsvToTransaction(fields, header) ==
    IF Len(fields) # Cardinality(DOMAIN header)
    THEN Error(WrongFormat("FieldCountNotHeader", <<>>))
    ELSE CsvBuild(ParseU64(fields[header[TX_ID]]),
                  fields[header[TX_TYPE]],
                  ParseU64(fields[header[FROM_USER_ID]]),
                  ParseU64(fields[header[TO_USER_ID]]),
                  ParseI64(fields[header[AMOUNT]]),
                  ParseU64(fields[header[TIMESTAMP]]),
                  MillisToInstant(ParseU64(fields[header[TIMESTAMP]])),
                  fields[header[STATUS]],
                  fields[header[DESCRIPTION]])

\* TxType's Display / Status's Display
TxTypeName(tx_type) ==
    CASE tx_type = "Deposit" -> DEPOSIT
      [] tx_type = "Transfer" -> TRANSFER
      [] tx_type = "Withdrawal" -> WITHDRAWAL

StatusName(status) ==
    CASE status = "Success" -> SUCCESS
      [] status = "Failure" -> FAILURE
      [] status = "Pending" -> PENDING

\* the text of the field `name` of tx, as both text writers print it
FieldText(tx, name) ==
    CASE name = TX_ID -> IntToString(tx.tx_id)
      [] name = TX_TYPE -> TxTypeName(tx.tx_type)
      [] name = FROM_USER_ID -> IntToString(tx.from_user_id)
      [] name = TO_USER_ID -> IntToString(tx.to_user_id)
      [] name = AMOUNT -> IntToString(tx.amount)
      [] name = TIMESTAMP -> IntToString(AsU64(TimestampMillis(tx.timestamp)))
      [] name = STATUS -> StatusName(tx.status)
      [] name = DESCRIPTION -> AddQuotes(tx.description)

\* CsvTxRecord::from_transaction: the fields at the header's indexes
CsvFromTransaction(tx, header) ==
    [i \in 1..CNT_VALUES |-> FieldText(tx, CHOOSE n \in DOMAIN header : header[n] = i)]

\* the values joined by commas
RECURSIVE JoinComma(_)
JoinComma(vals) ==
    IF vals = <<>> THEN <<>>
    ELSE IF Len(vals) = 1 THEN vals[1]
    ELSE vals[1] \o <<COMMA>> \o JoinComma(Tail(vals))

\* a serialize that ends the row without a newline
CsvSerializeOpenRow(fields) == JoinComma(fields)

\* CsvTxRecord::serialize: the bytes written
CsvSerialize(fields) == JoinComma(fields) \o <<NL>>

\* CsvTxReader::new
CsvTxReaderNew == [variant |-> "Csv", name |-> CSV_FORMAT, pos |-> 1,
                   state |-> "WaitStartRecord", header |-> <<>>]

ReadOut(res, rd) == [res |-> res, rd |-> rd]

\* a reader that loses its place: the position read_values has reached is
\* not kept
NotMoved(rd, v) == rd

\* the reader after a read_values call that returned v
Moved(rd, v) == [rd EXCEPT !.pos = v.pos, !.state = v.state]

\* a read_header that takes a stream without a line for the end of the data
CsvCheckHeaderEndsOnEmpty(rd, v) ==
    IF ~v.res.ok THEN ReadOut(Error(v.res.err), Moved(rd, v))
    ELSE IF v.res.val = <<>> THEN ReadOut(EndOfData, Moved(rd, v))
    ELSE IF v.res.val # HEADER_VALUES
    THEN ReadOut(Error(WrongFormat("WrongHeader", v.res.val)), Moved(rd, v))
    ELSE ReadOut(EndOfData, [Moved(rd, v) EXCEPT !.header = <<HeaderMap(v.res.val)>>])

\* CsvTxReader::read_header, v what read_values returned
CsvCheckHeader(rd, v) ==
    IF ~v.res.ok THEN ReadOut(Error(v.res.err), Moved(rd, v))
    ELSE IF v.res.val # HEADER_VALUES
    THEN ReadOut(Error(WrongFormat("WrongHeader", v.res.val)), Moved(rd, v))
    ELSE ReadOut(EndOfData, [Moved(rd, v) EXCEPT !.header = <<HeaderMap(v.res.val)>>])

\* CsvTxReader::read_header
CsvReadHeader(s, flt, rd) ==
    CsvCheckHeader(rd, CsvReadValues(s, flt, rd.pos, rd.state, <<>>))

\* a read_transaction that drops the header when the rows have ended
CsvRowForgetsHeader(rd, v) ==
    IF ~v.res.ok THEN ReadOut(Error(v.res.err), Moved(rd, v))
    ELSE IF v.res.val = <<>> THEN ReadOut(EndOfData, [Moved(rd, v) EXCEPT !.header = <<>>])
    ELSE ReadOut(CsvToTransaction(v.res.val, rd.header[1]), Moved(rd, v))

\* CsvTxReader::read_transaction once the header is known, v what
\* read_values returned
CsvRow(rd, v) ==
    IF ~v.res.ok THEN ReadOut(Error(v.res.err), Moved(rd, v))
    ELSE IF v.res.val = <<>> THEN ReadOut(EndOfData, Moved(rd, v))
    ELSE ReadOut(CsvToTransaction(v.res.val, rd.header[1]), Moved(rd, v))

\* CsvTxReader::read_transaction after its call of read_header returned h
CsvAfterHeader(s, flt, h) ==
    IF h.res.kind = "Error" THEN h
    ELSE CsvRow(h.rd, CsvReadValues(s, flt, h.rd.pos, h.rd.state, <<>>))

\* CsvTxReader::read_transaction
CsvReadTransaction(s, flt, rd) ==
    IF rd.header = <<>> THEN CsvAfterHeader(s, flt, CsvReadHeader(s, flt, rd))
    ELSE CsvRow(rd, CsvReadValues(s, flt, rd.pos, rd.state, <<>>))

\* CsvTxWriter::new
CsvTxWriterNew == [variant |-> "Csv", name |-> CSV_FORMAT, header |-> <<>>]

WriteOut(res, wr, out) == [res |-> res, wr |-> wr, out |-> out]

\* CsvTxWriter::write_header: the header line and the writer's own column map
CsvWriteHeader(wr) ==
    WriteOut(Ok(TRUE), [wr EXCEPT !.header = <<HeaderMap(HEADER_VALUES)>>],
             JoinComma(HEADER_VALUES) \o <<NL>>)

\* CsvTxWriter::write_transaction after its call of write_header returned h
CsvWriteRow(h, tx) ==
    WriteOut(Ok(TRUE), h.wr, h.out \o CsvSerialize(CsvFromTransaction(tx, h.wr.header[1])))

\* a write_transaction that writes the header before every row
CsvWriteTransactionWithHeader(wr, tx) == CsvWriteRow(CsvWriteHeader(wr), tx)

\* CsvTxWriter::write_transaction
CsvWriteTransaction(wr, tx) ==
    CsvWriteRow(IF wr.header = <<>> THEN CsvWriteHeader(wr) ELSE WriteOut(Ok(TRUE), wr, <<>>), tx)

----------------------------------------------------------------------------
(* Text codec: text_format.rs *)

\* HashMap<String, String>
EmptyMap == [k \in {} |-> <<>>]

\* HashMap::insert
Insert(m, k, v) == [x \in (DOMAIN m) \cup {k} |-> IF x = k THEN v ELSE m[x]]

TextToken(type, some, key, val) == [type |-> type, some |-> some, key |-> key, val |-> val]

\* a tokenizer that does not keep the state a comment began in: every
\* comment ends in WaitStartRecord
TextScanForgetsPrev(state, key_buf, val_buf, pos, tok) ==
    [state |-> IF state = "WaitEndComment(WaitStartKey)"
               THEN "WaitEndComment(WaitStartRecord)" ELSE state,
     key_buf |-> key_buf, val_buf |-> val_buf, pos |-> pos, tok |-> tok]

\* a tokenizer that stays in WaitStartKey after the blank line that ended a
\* block
TextScanSplitKeepsState(state, key_buf, val_buf, pos, tok) ==
    [state |-> IF tok # <<>> /\ tok[1].ok /\ tok[1].val.type = "SplitRecords"
               THEN "WaitStartKey" ELSE state,
     key_buf |-> key_buf, val_buf |-> val_buf, pos |-> pos, tok |-> tok]

\* the locals of one Parser::get_next_token call: self.state, key_buf,
\* val_buf, the next byte to read, and the value returned (<<>>: still in the loop)
TextScan(state, key_buf, val_buf, pos, tok) ==
    [state |-> state, key_buf |-> key_buf, val_buf |-> val_buf, pos |-> pos, tok |-> tok]

\* Parser::get_next_token: the body of the loop for one byte read (match self.state)
TextStep(c, byte) ==
    LET go(state, key_buf, val_buf) == TextScan(state, key_buf, val_buf, c.pos + 1, <<>>)
        return(state, tok) == TextScan(state, c.key_buf, c.val_buf, c.pos + 1, <<tok>>)
    IN  CASE c.state = "WaitStartRecord" ->
                IF byte = SP \/ byte = NL THEN go(c.state, c.key_buf, c.val_buf)
                ELSE IF byte = HASH
                THEN go("WaitEndComment(WaitStartRecord)", c.key_buf, c.val_buf)
                ELSE go("WaitEndKey", Append(c.key_buf, byte), c.val_buf)
          [] c.state = "WaitStartKey" ->
                IF byte = SP THEN go(c.state, c.key_buf, c.val_buf)
                ELSE IF byte = HASH
                THEN go("WaitEndComment(WaitStartKey)", c.key_buf, c.val_buf)
                ELSE IF byte = NL
                THEN return("WaitStartRecord", Ok(TextToken("SplitRecords", FALSE, <<>>, <<>>)))
                ELSE go("WaitEndKey", Append(c.key_buf, byte), c.val_buf)
          [] c.state = "WaitEndKey" ->
                IF byte = COLON THEN go("WaitStartValue", c.key_buf, c.val_buf)
                ELSE go(c.state, Append(c.key_buf, byte), c.val_buf)
          [] c.state = "WaitStartValue" ->
                IF byte = SP THEN go(c.state, c.key_buf, c.val_buf)
                ELSE IF byte = QUOTE
                THEN go("WaitEndString", c.key_buf, Append(c.val_buf, byte))
                ELSE go("WaitEndRegular", c.key_buf, Append(c.val_buf, byte))
          [] c.state = "WaitEndRegular" ->
                IF byte = NL
                THEN IF ~IsUtf8(c.key_buf) \/ ~IsUtf8(c.val_buf)
                     THEN return(c.state, Fail(FromUtf8Error))
                     ELSE return("WaitStartKey",
                                 Ok(TextToken("KeyValue", TRUE, Trim(c.key_buf), Trim(c.val_buf))))
                ELSE go(c.state, c.key_buf, Append(c.val_buf, byte))
          [] c.state = "WaitEndString" ->
                IF byte = BSLASH THEN go("WaitEscaped", c.key_buf, c.val_buf)
                ELSE IF byte = QUOTE
                THEN go("WaitEndRegular", c.key_buf, Append(c.val_buf, byte))
                ELSE go(c.state, c.key_buf, Append(c.val_buf, byte))
          [] c.state = "WaitEscaped" ->
                go("WaitEndString", c.key_buf, Append(c.val_buf, byte))
          [] c.state = "WaitEndComment(WaitStartRecord)" ->
                go(IF byte = NL THEN "WaitStartRecord" ELSE c.state, c.key_buf, c.val_buf)
          [] c.state = "WaitEndComment(WaitStartKey)" ->
                go(IF byte = NL THEN "WaitStartKey" ELSE c.state, c.key_buf, c.val_buf)

\* the loop of Parser::get_next_token over the bytes lo..hi, left when a
\* value is returned (the range is halved to keep the evaluation shallow)
RECURSIVE TextLoop(_, _, _, _)
TextLoop(s, lo, hi, c) ==
    IF lo > hi \/ c.tok # <<>> THEN c
    ELSE IF lo = hi THEN TextStep(c, s[lo])
    ELSE TextLoop(s, ((lo + hi) \div 2) + 1, hi, TextLoop(s, lo, (lo + hi) \div 2, c))

\* Parser::get_next_token when read_byte fails with err: the end of the
\* stream returns what the buffers hold, any other error is returned
TextNoByte(c, err) ==
    IF err.type # "EndOfStream" THEN Scanned(Fail(err), c.pos, c.state)
    ELSE IF ~IsUtf8(c.key_buf) \/ ~IsUtf8(c.val_buf)
    THEN Scanned(Fail(FromUtf8Error), c.pos, c.state)
    ELSE Scanned(Ok(TextToken("EndOfStream",
                              ~(Trim(c.key_buf) = <<>> /\ Trim(c.val_buf) = <<>>),
                              Trim(c.key_buf), Trim(c.val_buf))),
                 c.pos, c.state)

\* what Parser::get_next_token returns, c the locals its loop ends with
TextReturn(s, flt, c) ==
    IF c.tok # <<>> THEN Scanned(c.tok[1], c.pos, c.state)
    ELSE TextNoByte(c, ReadByte(s, flt, c.pos).err)

\* Parser::get_next_token, called in state st with byte pos the next to read
TextGetNextToken(s, flt, pos, st) ==
    TextReturn(s, flt, TextLoop(s, pos, LastReadable(s, flt, pos),
                                TextScan(st, <<>>, <<>>, pos, <<>>)))

RECURSIVE TextReadFields(_, _, _, _, _)

\* a reader that takes TX_ID as the first line of a block: the lines
\* collected before it are dropped
TextPushTokenFromTxId(s, flt, t, fields) ==
    IF ~t.res.ok THEN t
    ELSE CASE t.res.val.type = "KeyValue" ->
                TextReadFields(s, flt, t.pos, t.state,
                               Insert(IF t.res.val.key = TX_ID THEN EmptyMap ELSE fields,
                                      t.res.val.key, t.res.val.val))
           [] t.res.val.type = "SplitRecords" ->
                Scanned(Ok(fields), t.pos, t.state)
           [] t.res.val.type = "EndOfStream" ->
                Scanned(Ok(IF t.res.val.some
                           THEN Insert(fields, t.res.val.key, t.res.val.val)
                           ELSE fields),
                        t.pos, t.state)

\* a read_fin_data that drops what the buffers hold when the stream ends
TextPushTokenDropsReminder(s, flt, t, fields) ==
    IF ~t.res.ok THEN t
    ELSE CASE t.res.val.type = "KeyValue" ->
                TextReadFields(s, flt, t.pos, t.state,
                               Insert(fields, t.res.val.key, t.res.val.val))
           [] t.res.val.type = "SplitRecords" ->
                Scanned(Ok(fields), t.pos, t.state)
           [] t.res.val.type = "EndOfStream" ->
                Scanned(Ok(fields), t.pos, t.state)

\* TextReader::read_fin_data: the match on the token t, with fields collected
TextPushToken(s, flt, t, fields) ==
    IF ~t.res.ok THEN t
    ELSE CASE t.res.val.type = "KeyValue" ->
                TextReadFields(s, flt, t.pos, t.state,
                               Insert(fields, t.res.val.key, t.res.val.val))
           [] t.res.val.type = "SplitRecords" ->
                Scanned(Ok(fields), t.pos, t.state)
           [] t.res.val.type = "EndOfStream" ->
                Scanned(Ok(IF t.res.val.some
                           THEN Insert(fields, t.res.val.key, t.res.val.val)
                           ELSE fields),
                        t.pos, t.state)

\* the token loop of TextReader::read_fin_data, with fields collected
TextReadFields(s, flt, pos, st, fields) ==
    TextPushToken(s, flt, TextGetNextToken(s, flt, pos, st), fields)

\* HashMap::get
Get(m, k) == IF k \in DOMAIN m THEN <<m[k]>> ELSE <<>>

\* the result of parsing the value v (an Option) of a key: None parses to
\* nothing, the lookup has failed before
ParseU64Of(v) == IF v = <<>> THEN Fail(<<>>) ELSE ParseU64(v[1])
ParseI64Of(v) == IF v = <<>> THEN Fail(<<>>) ELSE ParseI64(v[1])

\* the Transaction of the values looked up (each an Option) and parsed, or
\* the error of the first lookup, parse or check that failed
TextBuild(id, tx_id, type, from, from_user_id, to, to_user_id, sum, amount, time, millis, timestamp, stat, desc) ==
    IF id = <<>> THEN Error(WrongFormat("MissingRecord", TX_ID))
    ELSE IF ~tx_id.ok THEN Error(tx_id.err)
    ELSE IF type = <<>> THEN Error(WrongFormat("MissingRecord", TX_ID))
    ELSE IF type[1] \notin {DEPOSIT, TRANSFER, WITHDRAWAL}
    THEN Error(WrongFormat("WrongTxType", type[1]))
    ELSE IF from = <<>> THEN Error(WrongFormat("MissingRecord", FROM_USER_ID))
    ELSE IF ~from_user_id.ok THEN Error(from_user_id.err)
    ELSE IF to = <<>> THEN Error(WrongFormat("MissingRecord", TO_USER_ID))
    ELSE IF ~to_user_id.ok THEN Error(to_user_id.err)
    ELSE IF sum = <<>> THEN Error(WrongFormat("MissingRecord", AMOUNT))
    ELSE IF ~amount.ok THEN Error(amount.err)
    ELSE IF time = <<>> THEN Error(WrongFormat("MissingRecord", TIMESTAMP))
    ELSE IF ~millis.ok THEN Error(millis.err)
    ELSE IF ~timestamp.ok THEN Error(WrongFormat("WrongTimestamp", IntToString(millis.val)))
    ELSE IF stat = <<>> THEN Error(WrongFormat("MissingRecord", STATUS))
    ELSE IF stat[1] \notin {SUCCESS, FAILURE, PENDING}
    THEN Error(WrongFormat("WrongStatus", stat[1]))
    ELSE IF desc = <<>> THEN Error(WrongFormat("MissingRecord", DESCRIPTION))
    ELSE IF ~(StartsWithQuote(desc[1]) /\ EndsWithQuote(desc[1]))
    THEN Error(WrongFormat("WrongDescription", desc[1]))
    ELSE IF RemoveQuotes(desc[1]).panic THEN Panic
    ELSE Record(Transaction(tx_id.val, TxTypeOf(type[1]), from_user_id.val, to_user_id.val,
                            amount.val, timestamp.val, StatusOf(stat[1]),
                            RemoveQuotes(desc[1]).val))

\* a to_fin_data without the check of the number of keys
TextToFinDataAnyCount(fields) ==
    TextBuild(Get(fields, TX_ID), ParseU64Of(Get(fields, TX_ID)),
              Get(fields, TX_TYPE),
              Get(fields, FROM_USER_ID), ParseU64Of(Get(fields, FROM_USER_ID)),
              Get(fields, TO_USER_ID), ParseU64Of(Get(fields, TO_USER_ID)),
              Get(fields, AMOUNT), ParseI64Of(Get(fields, AMOUNT)),
              Get(fields, TIMESTAMP), ParseU64Of(Get(fields, TIMESTAMP)),
              MillisToInstant(ParseU64Of(Get(fields, TIMESTAMP))),
              Get(fields, STATUS), Get(fields, DESCRIPTION))

\* TextFinanceRecord::to_fin_data
TextToFinData(fields) ==
    IF Cardinality(DOMAIN fields) # CNT_VALUES
    THEN Error(WrongFormat("WrongRecord", fields))
    ELSE TextBuild(Get(fields, TX_ID), ParseU64Of(Get(fields, TX_ID)),
                   Get(fields, TX_TYPE),
                   Get(fields, FROM_USER_ID), ParseU64Of(Get(fields, FROM_USER_ID)),
                   Get(fields, TO_USER_ID), ParseU64Of(Get(fields, TO_USER_ID)),
                   Get(fields, AMOUNT), ParseI64Of(Get(fields, AMOUNT)),
                   Get(fields, TIMESTAMP), ParseU64Of(Get(fields, TIMESTAMP)),
                   MillisToInstant(ParseU64Of(Get(fields, TIMESTAMP))),
                   Get(fields, STATUS), Get(fields, DESCRIPTION))

\* TextFinanceRecord::from_fin_data
TextFromFinData(tx) ==
    [k \in {HEADER_VALUES[i] : i \in 1..CNT_VALUES} |-> FieldText(tx, k)]

\* the lines `k: v` of the keys in the order given
RECURSIVE TextLines(_, _)
TextLines(fields, order) ==
    IF order = <<>> THEN <<>>
    ELSE order[1] \o <<COLON, SP>> \o fields[order[1]] \o <<NL>>
         \o TextLines(fields, Tail(order))

\* a serialize that ends the block without the empty line
TextSerializeOpenBlock(fields, order) == TextLines(fields, order)

\* TextFinanceRecord::serialize, the map iterated in `order`
TextSerialize(fields, order) == TextLines(fields, order) \o <<NL>>

\* the sequence s rotated left by r
Rotate(s, r) == SubSeq(s, r + 1, Len(s)) \o SubSeq(s, 1, r)

RECURSIVE Reverse(_)
Reverse(s) == IF s = <<>> THEN <<>> ELSE Reverse(Tail(s)) \o <<s[1]>>

\* HashMap::iter visits the keys in an order the program does not control:
\* the orders the model draws from
IterationOrders(keys) == {keys, Reverse(keys), Rotate(keys, 3)}

\* a reader whose tokenizer starts in WaitStartKey
TextTxReaderNewInBlock == [variant |-> "Text", name |-> TEXT_FORMAT, pos |-> 1,
                           state |-> "WaitStartKey", header |-> <<>>]

\* TextReader::new
TextTxReaderNew == [variant |-> "Text", name |-> TEXT_FORMAT, pos |-> 1,
                    state |-> "WaitStartRecord", header |-> <<>>]

\* TextReader::read_fin_data, f what its token loop ended with
TextBlock(rd, f) ==
    IF ~f.res.ok THEN ReadOut(Error(f.res.err), Moved(rd, f))
    ELSE IF DOMAIN f.res.val = {} THEN ReadOut(EndOfData, Moved(rd, f))
    ELSE ReadOut(TextToFinData(f.res.val), Moved(rd, f))

\* TextReader::read_fin_data
TextReadTransaction(s, flt, rd) ==
    TextBlock(rd, TextReadFields(s, flt, rd.pos, rd.state, EmptyMap))

\* TextWriter::new
TextTxWriterNew == [variant |-> "Text", name |-> TEXT_FORMAT, header |-> <<>>]

\* TextWriter::write_fin_data, its map iterated in `order`
TextWriteTransaction(wr, tx, order) ==
    WriteOut(Ok(TRUE), wr, TextSerialize(TextFromFinData(tx), order))

----------------------------------------------------------------------------
(* Binary codec: bin_format.rs *)

\* to_be_bytes: v in n bytes, the most significant first
RECURSIVE BeBytes(_, _)
BeBytes(v, n) == IF n = 0 THEN <<>> ELSE BeBytes(v \div 256, n - 1) \o <<v % 256>>

\* from_be_bytes
RECURSIVE FromBeBytes(_)
FromBeBytes(b) ==
    IF b = <<>> THEN 0 ELSE FromBeBytes(SubSeq(b, 1, Len(b) - 1)) * 256 + b[Len(b)]

\* Read::read_exact of n bytes from byte pos
ReadExact(s, flt, pos, n) ==
    IF n > 0 /\ flt.at >= pos /\ flt.at < pos + n /\ flt.at <= Len(s) + 1
    THEN [res |-> Fail(FromIoError(flt.kind)), pos |-> flt.at]
    ELSE IF pos + n - 1 > Len(s)
    THEN [res |-> Fail(FromIoError("UnexpectedEof")), pos |-> Len(s) + 1]
    ELSE [res |-> Ok(SubSeq(s, pos, pos + n - 1)), pos |-> pos + n]

\* the widths of the fixed fields after magic, in wire order:
\* record_size, tx_id, tx_type, from_user_id, to_user_id, amount, timestamp, status, desc_len
BinFieldWidths == <<4, 8, 1, 8, 8, 8, 8, 1, 4>>

RECURSIVE BinReadFields(_, _, _, _, _)

\* the field read by r pushed to vals, and the fields of `widths` read after it
BinPushField(s, flt, r, widths, vals) ==
    IF ~r.res.ok THEN r
    ELSE BinReadFields(s, flt, r.pos, widths, Append(vals, FromBeBytes(r.res.val)))

\* read_u32 / read_u64 / read_u8 / read_i64 one after the other: the values
\* of the fields of the widths given, read from byte pos
BinReadFields(s, flt, pos, widths, vals) ==
    IF widths = <<>> THEN [res |-> Ok(vals), pos |-> pos]
    ELSE BinPushField(s, flt, ReadExact(s, flt, pos, widths[1]), Tail(widths), vals)

BinFinanceRecord(magic, record_size, tx_id, tx_type, from_user_id, to_user_id, amount, timestamp, status, desc_len, description) ==
    [magic |-> magic, record_size |-> record_size, tx_id |-> tx_id, tx_type |-> tx_type,
     from_user_id |-> from_user_id, to_user_id |-> to_user_id, amount |-> amount,
     timestamp |-> timestamp, status |-> status, desc_len |-> desc_len,
     description |-> description]

\* BinFinanceRecord::serialize: the bytes written
BinSerialize(r) ==
    BeBytes(r.magic, 4) \o BeBytes(r.record_size, 4) \o BeBytes(r.tx_id, 8)
        \o BeBytes(r.tx_type, 1) \o BeBytes(r.from_user_id, 8) \o BeBytes(r.to_user_id, 8)
        \o BeBytes(AsU64(r.amount), 8) \o BeBytes(r.timestamp, 8) \o BeBytes(r.status, 1)
        \o BeBytes(r.desc_len, 4) \o r.description

\* BinFinanceRecord::deserialize: the record of the fields v and the
\* description read by d
BinWithDescription(v, d) ==
    IF ~d.res.ok THEN d
    ELSE IF ~IsUtf8(d.res.val) THEN [res |-> Fail(FromUtf8Error), pos |-> d.pos]
    ELSE [res |-> Ok(BinFinanceRecord(MAGIC, v[1], v[2], v[3], v[4], v[5], AsI64(v[6]),
                                      v[7], v[8], v[9], d.res.val)),
          pos |-> d.pos]

\* a deserialize that takes the length of the description from record_size
BinAfterFieldsBySize(s, flt, f) ==
    IF ~f.res.ok THEN f
    ELSE BinWithDescription(f.res.val, ReadExact(s, flt, f.pos, f.res.val[1] - 46))

\* BinFinanceRecord::deserialize after the fixed fields were read by f
BinAfterFields(s, flt, f) ==
    IF ~f.res.ok THEN f
    ELSE BinWithDescription(f.res.val, ReadExact(s, flt, f.pos, f.res.val[9]))

\* BinFinanceRecord::deserialize after magic was read by m (the u32 read is
\* MAGIC exactly if its 4 bytes are those of MAGIC)
BinAfterMagic(s, flt, m) ==
    IF ~m.res.ok THEN m
    ELSE IF m.res.val # BeBytes(MAGIC, 4)
    THEN [res |-> Fail(WrongFormat("WrongMagic", m.res.val)), pos |-> m.pos]
    ELSE BinAfterFields(s, flt, BinReadFields(s, flt, m.pos, BinFieldWidths, <<>>))

\* BinFinanceRecord::deserialize
BinDeserialize(s, flt, pos) == BinAfterMagic(s, flt, ReadExact(s, flt, pos, 4))

\* TxType / TxStatus of the wire's byte
TxTypeOfByte(b) ==
    CASE b = 0 -> "Deposit"
      [] b = 1 -> "Transfer"
      [] b = 2 -> "Withdrawal"

StatusOfByte(b) ==
    CASE b = 0 -> "Success"
      [] b = 1 -> "Failure"
      [] b = 2 -> "Pending"

\* BinFinanceRecord::to_fin_data
BinToFinData(r) ==
    IF r.tx_type \notin {0, 1, 2} THEN Error(WrongFormat("WrongTxType", <<r.tx_type>>))
    ELSE IF r.status \notin {0, 1, 2} THEN Error(WrongFormat("WrongStatus", <<r.status>>))
    ELSE IF ~FromTimestampMillis(AsI64(r.timestamp)).ok
    THEN Error(WrongFormat("WrongTimestamp", IntToString(r.timestamp)))
    ELSE IF ~(StartsWithQuote(r.description) /\ EndsWithQuote(r.description))
    THEN Error(WrongFormat("WrongDescription", r.description))
    ELSE IF RemoveQuotes(r.description).panic THEN Panic
    ELSE Record(Transaction(r.tx_id, TxTypeOfByte(r.tx_type), r.from_user_id, r.to_user_id,
                            r.amount, FromTimestampMillis(AsI64(r.timestamp)).val,
                            StatusOfByte(r.status), RemoveQuotes(r.description).val))

\* the wire's byte of a TxType / TxStatus
TxTypeByte(tx_type) ==
    CASE tx_type = "Deposit" -> 0
      [] tx_type = "Transfer" -> 1
      [] tx_type = "Withdrawal" -> 2

StatusByte(status) ==
    CASE status = "Success" -> 0
      [] status = "Failure" -> 1
      [] status = "Pending" -> 2

\* a from_fin_data whose record_size counts the whole record, magic and
\* record_size included
BinFromFinDataWholeSize(tx) ==
    BinFinanceRecord(MAGIC,
                     4 + 4 + 8 + 1 + 8 + 8 + 8 + 8 + 1 + 4 + Len(AddQuotes(tx.description)),
                     tx.tx_id, TxTypeByte(tx.tx_type), tx.from_user_id, tx.to_user_id,
                     tx.amount, AsU64(TimestampMillis(tx.timestamp)), StatusByte(tx.status),
                     Len(AddQuotes(tx.description)), AddQuotes(tx.description))

\* BinFinanceRecord::from_fin_data
BinFromFinData(tx) ==
    BinFinanceRecord(MAGIC,
                     8 + 1 + 8 + 8 + 8 + 8 + 1 + 4 + Len(AddQuotes(tx.description)),
                     tx.tx_id, TxTypeByte(tx.tx_type), tx.from_user_id, tx.to_user_id,
                     tx.amount, AsU64(TimestampMillis(tx.timestamp)), StatusByte(tx.status),
                     Len(AddQuotes(tx.description)), AddQuotes(tx.description))

\* BinReader::new
BinTxReaderNew == [variant |-> "Bin", name |-> BIN_FORMAT, pos |-> 1,
                   state |-> "", header |-> <<>>]

\* BinReader::read_fin_data, r what deserialize returned
BinRecord(rd, r) ==
    IF ~r.res.ok
    THEN IF r.res.err.type = "EndOfStream" THEN ReadOut(EndOfData, [rd EXCEPT !.pos = r.pos])
         ELSE ReadOut(Error(r.res.err), [rd EXCEPT !.pos = r.pos])
    ELSE ReadOut(BinToFinData(r.res.val), [rd EXCEPT !.pos = r.pos])

\* BinReader::read_fin_data
BinReadTransaction(s, flt, rd) == BinRecord(rd, BinDeserialize(s, flt, rd.pos))

\* BinWriter::new
BinTxWriterNew == [variant |-> "Bin", name |-> BIN_FORMAT, header |-> <<>>]

\* BinWriter::write_fin_data
BinWriteTransaction(wr, tx) == WriteOut(Ok(TRUE), wr, BinSerialize(BinFromFinData(tx)))

----------------------------------------------------------------------------
(* The dispatcher: tx_format.rs *)

\* a constructor that compares the names without their case
TxReaderNewAnyCase(fin_format) ==
    CASE fin_format \in {CSV_FORMAT, "CSV", "Csv"} -> CsvTxReaderNew
      [] fin_format \in {TEXT_FORMAT, "TEXT", "Text"} -> TextTxReaderNew
      [] fin_format \in {BIN_FORMAT, "BIN", "Bin"} -> BinTxReaderNew
      [] OTHER -> [variant |-> "Unsupported", name |-> fin_format, pos |-> 1,
                   state |-> "", header |-> <<>>]

\* TxReader::new
TxReaderNew(fin_format) ==
    CASE fin_format = CSV_FORMAT -> CsvTxReaderNew
      [] fin_format = TEXT_FORMAT -> TextTxReaderNew
      [] fin_format = BIN_FORMAT -> BinTxReaderNew
      [] OTHER -> [variant |-> "Unsupported", name |-> fin_format, pos |-> 1,
                   state |-> "", header |-> <<>>]

\* TxReader::read_transaction
TxReadTransaction(s, flt, rd) ==
    CASE rd.variant = "Csv" -> CsvReadTransaction(s, flt, rd)
      [] rd.variant = "Text" -> TextReadTransaction(s, flt, rd)
      [] rd.variant = "Bin" -> BinReadTransaction(s, flt, rd)
      [] rd.variant = "Unsupported" -> ReadOut(Error(WrongFormat(rd.name, <<>>)), rd)

\* a TxWriter::new whose CSV writer writes the header line when it is made
TxWriterNewWritesHeader(fin_format) ==
    CASE fin_format = CSV_FORMAT -> JoinComma(HEADER_VALUES) \o <<NL>>
      [] fin_format = TEXT_FORMAT -> <<>>
      [] fin_format = BIN_FORMAT -> <<>>
      [] OTHER -> <<>>

\* the bytes TxWriter::new writes to the stream it is given: CsvTxWriter::new,
\* TextTxWriter::new and BinTxWriter::new store the stream and write nothing
TxWriterNewWrites(fin_format) ==
    CASE fin_format = CSV_FORMAT -> <<>>
      [] fin_format = TEXT_FORMAT -> <<>>
      [] fin_format = BIN_FORMAT -> <<>>
      [] OTHER -> <<>>

\* TxWriter::new
TxWriterNew(fin_format) ==
    CASE fin_format = CSV_FORMAT -> CsvTxWriterNew
      [] fin_format = TEXT_FORMAT -> TextTxWriterNew
      [] fin_format = BIN_FORMAT -> BinTxWriterNew
      [] OTHER -> [variant |-> "Unsupported", name |-> fin_format, header |-> <<>>]

\* TxWriter::write_transaction; `order` is the iteration order of the text
\* writer's map
TxWriteTransaction(wr, tx, order) ==
    CASE wr.variant = "Csv" -> CsvWriteTransaction(wr, tx)
      [] wr.variant = "Text" -> TextWriteTransaction(wr, tx, order)
      [] wr.variant = "Bin" -> BinWriteTransaction(wr, tx)
      [] wr.variant = "Unsupported" -> WriteOut(Fail(WrongFormat(wr.name, <<>>)), wr, <<>>)

----------------------------------------------------------------------------
(* Inputs of the runs *)

Formats == {CSV_FORMAT, TEXT_FORMAT, BIN_FORMAT}

\* a stream that never fails
NoFault == [at |-> 0, kind |-> "Other"]

\* all sequences over S of length 0..n
RECURSIVE SeqsUpTo(_, _)
SeqsUpTo(S, n) ==
    IF n = 0 THEN {<<>>}
    ELSE SeqsUpTo(S, n - 1)
            \cup {Append(q, x) : q \in {t \in SeqsUpTo(S, n - 1) : Len(t) = n - 1}, x \in S}

\* the bytes descriptions are made of: a letter and every byte a tokenizer tests for
DescBytes == {97, BSLASH, QUOTE, COMMA, COLON, HASH, NL, SP}

\* three Transactions that differ in every field but the description
Sample(i, description, submilli) ==
    CASE i = 1 -> Transaction(0, "Deposit", 0, U64Max, 7, Instant(12, submilli),
                              "Failure", description)
      [] i = 2 -> Transaction(U64Max, "Transfer", 10, 10, I64Min, Instant(0, submilli),
                              "Pending", description)
      [] i = 3 -> Transaction(10, "Withdrawal", U64Max, 0, -1, Instant(MaxInstantMillis, submilli),
                              "Success", description)

\* Transactions whose description no tokenizer treats specially
PlainTransactions == {Sample(1, <<97>>, 0), Sample(2, <<97, SP, 98>>, 0), Sample(3, <<>>, 0)}

\* Transactions with every description of at most MaxDescLen bytes of
\* DescBytes, with and without a part of the timestamp below the millisecond
RichTransactions ==
    {Sample(i, d, sub) : i \in {1, 2}, d \in SeqsUpTo(DescBytes, MaxDescLen), sub \in {0, 1}}

\* the sequences of Transactions the runs write
RunTransactions ==
    SeqsUpTo(PlainTransactions, MaxWrites) \cup {<<x>> : x \in RichTransactions}

\* the bytes of the byte strings of q, one after the other
RECURSIVE Concat(_)
Concat(q) == IF q = <<>> THEN <<>> ELSE q[1] \o Concat(Tail(q))

\* the header line of a CSV stream
HeaderLine == JoinComma(HEADER_VALUES) \o <<NL>>

\* the bytes of one record of tx in the format fmt (text: its lines in `order`)
Encode(fmt, tx, order) ==
    CASE fmt = CSV_FORMAT -> CsvSerialize(CsvFromTransaction(tx, HeaderMap(HEADER_VALUES)))
      [] fmt = TEXT_FORMAT -> TextSerialize(TextFromFinData(tx), order)
      [] fmt = BIN_FORMAT -> BinSerialize(BinFromFinData(tx))

\* the bytes of a record of the format fmt that its reader rejects once it
\* has read all of it: the record of tx with a transaction type that is none
EncodeBad(fmt, tx) ==
    CASE fmt = CSV_FORMAT ->
            CsvSerialize([CsvFromTransaction(tx, HeaderMap(HEADER_VALUES)) EXCEPT ![2] = <<88>>])
      [] fmt = TEXT_FORMAT ->
            TextSerialize([TextFromFinData(tx) EXCEPT ![TX_TYPE] = <<88>>], HEADER_VALUES)
      [] fmt = BIN_FORMAT ->
            BinSerialize([BinFromFinData(tx) EXCEPT !.tx_type = 3])

\* what a stream of the format fmt starts with
Preamble(fmt) == IF fmt = CSV_FORMAT THEN HeaderLine ELSE <<>>

\* the stream of the format fmt that holds the records of txs
WellFormed(fmt, txs, order) ==
    Preamble(fmt) \o Concat([k \in 1..Len(txs) |-> Encode(fmt, txs[k], order)])

\* the stream of the format fmt that holds the records of txs and, as its
\* record number `at`, a record the reader rejects
WithBadRecord(fmt, txs, at) ==
    Preamble(fmt)
        \o Concat([k \in 1..(at - 1) |-> Encode(fmt, txs[k], HEADER_VALUES)])
        \o EncodeBad(fmt, Sample(3, <<97>>, 0))
        \o Concat([k \in 1..(Len(txs) - at + 1) |-> Encode(fmt, txs[at + k - 1], HEADER_VALUES)])

\* the bytes a quoted value escapes
Escapable == {BSLASH, QUOTE, COMMA, COLON, HASH, NL}

\* the text d with a backslash before every byte a quoted value escapes
RECURSIVE Escape(_)
Escape(d) ==
    IF d = <<>> THEN <<>>
    ELSE (IF d[1] \in Escapable THEN <<BSLASH, d[1]>> ELSE <<d[1]>>) \o Escape(Tail(d))

\* the descriptions of the escaped values: a delimiter, quote, colon or hash
\* among at most MaxDescLen bytes
EscapedDescriptions ==
    {d \in SeqsUpTo({97, QUOTE, COMMA, COLON, HASH, NL}, MaxDescLen) :
        \E i \in 1..Len(d) : d[i] \in Escapable}

\* a key no record has
EXTRA_KEY == <<69, 88, 84, 82, 65>>

\* the required keys
RequiredKeys == {HEADER_VALUES[i] : i \in 1..CNT_VALUES}

\* the keys of the sequence q
Keys(q) == {q[i] : i \in 1..Len(q)}

\* the text block with a line for each key of the sequence `keys`
KeyBlock(keys) ==
    TextSerialize([k \in Keys(keys) |-> IF k = EXTRA_KEY THEN <<120>>
                                        ELSE FieldText(Sample(1, <<97>>, 0), k)],
                  keys)

\* the keys of HEADER_VALUES and EXTRA_KEY that are in K, in that order
InOrder(K) ==
    LET kept(k) == k \in K
    IN  SelectSeq(HEADER_VALUES \o <<EXTRA_KEY>>, kept)

\* the keys of the text blocks: the required ones, with at most one of
\* them missing and with or without an unexpected one
KeySeqs ==
    {InOrder((RequiredKeys \ gone) \cup more) :
        gone \in {g \in SUBSET RequiredKeys : Cardinality(g) <= 1},
        more \in {{}, {EXTRA_KEY}}}

\* q with its elements i and i + 1 exchanged
Swap(q, i) == [q EXCEPT ![i] = q[i + 1], ![i + 1] = q[i]]

\* q without its element i
Drop(q, i) == SubSeq(q, 1, i - 1) \o SubSeq(q, i + 1, Len(q))

\* the tokens of the header lines: the standard ones, and those with one
\* token misspelled, emptied, dropped or added, or two exchanged
HeaderTokens ==
    {HEADER_VALUES, HEADER_VALUES \o <<EXTRA_KEY>>}
        \cup {[HEADER_VALUES EXCEPT ![i] = EXTRA_KEY] : i \in 1..CNT_VALUES}
        \cup {[HEADER_VALUES EXCEPT ![i] = <<>>] : i \in 1..CNT_VALUES}
        \cup {Drop(HEADER_VALUES, i) : i \in 1..CNT_VALUES}
        \cup {Swap(HEADER_VALUES, i) : i \in 1..(CNT_VALUES - 1)}

\* what a run starts from: the kind of run, the Transactions it is about,
\* the formats it goes through, the bytes it reads first, a position in
\* them, and the keys or tokens they were made of
RunInput(family, txs, route, bytes, mark, keys) ==
    [family |-> family, txs |-> txs, route |-> route, bytes |-> bytes, mark |-> mark,
     keys |-> keys]

\* streams of n >= 0 well-formed records
WellFormedInputs ==
    {RunInput("wellformed", txs, <<fmt>>, WellFormed(fmt, txs, order), 0, <<>>) :
        fmt \in Formats, txs \in SeqsUpTo(PlainTransactions, MaxWrites),
        order \in IterationOrders(HEADER_VALUES)}

\* streams of one record whose description was written with escapes
EscapedInputs ==
    {RunInput("escaped", <<Sample(1, d, 0)>>, <<fmt>>,
              WellFormed(fmt, <<Sample(1, Escape(d), 0)>>, HEADER_VALUES), 0, <<>>) :
        fmt \in {CSV_FORMAT, TEXT_FORMAT}, d \in EscapedDescriptions}

\* the two records of the binary streams that are cut
CutTransactions == <<Sample(1, <<97>>, 0), Sample(2, <<97, SP, 98>>, 0)>>

\* binary streams that end after `mark` bytes of two records
TruncatedInputs ==
    {RunInput("truncated", CutTransactions, <<BIN_FORMAT>>,
              SubSeq(WellFormed(BIN_FORMAT, CutTransactions, HEADER_VALUES), 1, mark), mark, <<>>) :
        mark \in 0..Len(WellFormed(BIN_FORMAT, CutTransactions, HEADER_VALUES))}

\* streams with one record the reader rejects, as record number `mark`
BadRecordInputs ==
    UNION {{RunInput("badrecord", txs, <<fmt>>, WithBadRecord(fmt, txs, at), at, <<>>) :
                at \in 1..(Len(txs) + 1)} :
            fmt \in Formats, txs \in SeqsUpTo(PlainTransactions, MaxWrites)}

\* the CSV stream of a header line of the tokens given, which ends at byte
\* `mark`, and the lines of `rest`
HeaderInput(tokens, rest) ==
    RunInput("header", <<Sample(1, <<97>>, 0)>>, <<CSV_FORMAT>>,
             JoinComma(tokens) \o <<NL>> \o rest, Len(JoinComma(tokens)) + 1, tokens)

\* CSV streams of a header line and one row, and the stream whose header
\* line ends after the comma that follows STATUS, DESCRIPTION on the next line
HeaderInputs ==
    {HeaderInput(tokens, Encode(CSV_FORMAT, Sample(1, <<97>>, 0), HEADER_VALUES)) :
        tokens \in HeaderTokens}
    \cup {HeaderInput([HEADER_VALUES EXCEPT ![CNT_VALUES] = <<>>],
                      DESCRIPTION \o <<NL>>
                        \o Encode(CSV_FORMAT, Sample(1, <<97>>, 0), HEADER_VALUES))}

\* text streams of one block with the keys `keys`
KeysInputs ==
    {RunInput("keys", <<Sample(1, <<97>>, 0)>>, <<TEXT_FORMAT>>, KeyBlock(keys), 0, keys) :
        keys \in KeySeqs}

\* the conversions of the chain: bin -> csv -> text -> bin
ChainRoute == <<BIN_FORMAT, CSV_FORMAT, TEXT_FORMAT, BIN_FORMAT>>

\* binary streams of the records of txs, to be converted along ChainRoute
ChainInputs ==
    {RunInput("chain", txs, ChainRoute, WellFormed(BIN_FORMAT, txs, HEADER_VALUES), 0, <<>>) :
        txs \in RunTransactions}

\* descriptions a text or CSV value holds between its quotes as they are
QuotedDescriptions == {<<97>>, <<97, SP, 98>>, <<>>, <<COLON>>, <<HASH, 97>>}

\* the orders of the lines of a text block: the standard one rotated, reversed,
\* or with two neighbours exchanged
LineOrders ==
    {Rotate(HEADER_VALUES, r) : r \in 0..(CNT_VALUES - 1)}
        \cup {Reverse(HEADER_VALUES)}
        \cup {Swap(HEADER_VALUES, i) : i \in 1..(CNT_VALUES - 1)}

\* text streams of one block, its lines in every order of LineOrders
PermutedInputs ==
    {RunInput("permuted", <<Sample(i, d, 0)>>, <<TEXT_FORMAT>>,
              WellFormed(TEXT_FORMAT, <<Sample(i, d, 0)>>, order), 0, order) :
        i \in {1, 2, 3}, d \in QuotedDescriptions, order \in LineOrders}

\* the sequences of Transactions of the streams that lines are added to
FewTransactions ==
    {<<>>, <<Sample(1, <<97>>, 0)>>, <<Sample(1, <<97>>, 0), Sample(2, <<97, SP, 98>>, 0)>>,
     <<Sample(3, <<>>, 0), Sample(1, <<97>>, 0)>>}

\* where a line of s starts: after 0 bytes and after every newline
LineStarts(s) == {0} \cup {i \in 1..Len(s) : s[i] = NL}

\* s with x put in after its first i bytes
InsertAt(s, i, x) == SubSeq(s, 1, i) \o x \o SubSeq(s, i + 1, Len(s))

\* whole comment lines: spaces or none, `#`, bytes of any kind (a colon, a
\* quote, a hash, a backslash, a byte that is no UTF-8), a newline
CommentLines ==
    {<<HASH, NL>>, <<SP, HASH, SP, 97, COLON, SP, QUOTE, 98, NL>>,
     <<SP, SP, HASH, HASH, 255, BSLASH, NL>>}

\* text streams with one comment line, at the start of line `mark`: before
\* the first block, between two lines of a block, before the blank line that
\* ends a block, between blocks, after the last one
CommentInputs ==
    UNION {{RunInput("comment", txs, <<TEXT_FORMAT>>,
                     InsertAt(WellFormed(TEXT_FORMAT, txs, HEADER_VALUES), at, c), at, <<c>>) :
                at \in LineStarts(WellFormed(TEXT_FORMAT, txs, HEADER_VALUES)),
                c \in CommentLines} :
            txs \in FewTransactions}

\* a key of a text line with a comment begun inside it: the first two bytes
\* of the key, `#`, the comment's text, a newline, the rest of the key
KeyWithComment(k) == SubSeq(k, 1, 2) \o <<HASH, 99, NL>> \o SubSeq(k, 3, Len(k))

\* text streams of one block whose line `mark` has a comment inside its key
MidKeyInputs ==
    {RunInput("midkey", <<Sample(1, <<97>>, 0)>>, <<TEXT_FORMAT>>,
              TextLines(TextFromFinData(Sample(1, <<97>>, 0)), SubSeq(HEADER_VALUES, 1, at - 1))
                \o KeyWithComment(HEADER_VALUES[at]) \o <<COLON, SP>>
                \o FieldText(Sample(1, <<97>>, 0), HEADER_VALUES[at]) \o <<NL>>
                \o TextSerialize(TextFromFinData(Sample(1, <<97>>, 0)),
                                 SubSeq(HEADER_VALUES, at + 1, CNT_VALUES)),
              at, <<HEADER_VALUES[at]>>) :
        at \in 1..CNT_VALUES}

\* format names that are none of `bin`, `csv`, `text`: other words, the empty
\* name, the names in another case or with a space
UnsupportedNames == {"", "CSV", "Csv", "Bin", "TEXT", "txt", "json", "bin ", " csv"}

\* streams and Transactions handed to instances made with an unsupported name
UnsupportedInputs ==
    {RunInput("unsupported", txs, <<name>>, WellFormed(CSV_FORMAT, txs, HEADER_VALUES), 0, <<>>) :
        name \in UnsupportedNames, txs \in FewTransactions \ {<<>>}}

\* values that open with a quote that is never closed: the quote alone, then
\* text, then an escaped quote, then a newline
UnterminatedValues ==
    {<<QUOTE>>, <<QUOTE, 97>>, <<QUOTE, 97, NL>>, <<QUOTE, 97, COMMA, 98>>,
     <<QUOTE, 97, BSLASH, QUOTE>>, <<QUOTE, BSLASH, QUOTE, NL>>}

\* the stream of the format fmt with the records of txs and then a record
\* whose description is the value v, the last bytes of the stream
EndingWith(fmt, txs, v) ==
    WellFormed(fmt, txs, HEADER_VALUES)
        \o (IF fmt = CSV_FORMAT
            THEN JoinComma([CsvFromTransaction(Sample(3, <<>>, 0), HeaderMap(HEADER_VALUES))
                                EXCEPT ![CNT_VALUES] = v])
            ELSE TextLines(TextFromFinData(Sample(3, <<>>, 0)), SubSeq(HEADER_VALUES, 1, CNT_VALUES - 1))
                    \o DESCRIPTION \o <<COLON, SP>> \o v)

\* CSV and text streams whose last record has a description that opens with
\* a quote no unescaped quote closes before the stream ends; it is record
\* number `mark`
UnterminatedInputs ==
    {RunInput("unterminated", txs, <<fmt>>, EndingWith(fmt, txs, v), Len(txs) + 1, <<v>>) :
        fmt \in {CSV_FORMAT, TEXT_FORMAT}, txs \in FewTransactions, v \in UnterminatedValues}

\* CSV streams whose last row has no newline, text streams whose last block
\* has no blank line after it (one byte short) or whose last line has no
\* newline either (two bytes short)
TrailingInputs ==
    {RunInput("trailing", txs, <<CSV_FORMAT>>,
              SubSeq(WellFormed(CSV_FORMAT, txs, HEADER_VALUES), 1,
                     Len(WellFormed(CSV_FORMAT, txs, HEADER_VALUES)) - 1), 1, <<>>) :
        txs \in FewTransactions \ {<<>>}}
    \cup {RunInput("trailing", txs, <<TEXT_FORMAT>>,
                   SubSeq(WellFormed(TEXT_FORMAT, txs, order), 1,
                          Len(WellFormed(TEXT_FORMAT, txs, order)) - short), short, order) :
            txs \in FewTransactions \ {<<>>}, order \in IterationOrders(HEADER_VALUES),
            short \in {1, 2}}

\* lines that are empty or hold whitespace only: spaces, a tab (9), a
\* carriage return (13)
BlankLines == {<<NL>>, <<SP, NL>>, <<SP, SP, NL>>, <<9, NL>>, <<13, NL>>, <<SP, 9, NL>>}

\* CSV streams with one blank line or two, at the start of line `mark`:
\* before the header, between the header and the rows, between rows, after them
BlankInputs ==
    UNION {{RunInput("blank", txs, <<CSV_FORMAT>>,
                     InsertAt(WellFormed(CSV_FORMAT, txs, HEADER_VALUES), at, b \o more), at,
                     <<b \o more>>) :
                at \in LineStarts(WellFormed(CSV_FORMAT, txs, HEADER_VALUES)),
                b \in BlankLines, more \in {<<>>, <<NL>>}} :
            txs \in FewTransactions}

\* the binary stream of one whole record with the magic, tx_type, status,
\* timestamp and description bytes given, which `keys` lists as bytes
BinFieldsInput(magic, tx_type, status, timestamp, description) ==
    RunInput("binfields", <<>>, <<BIN_FORMAT>>,
             BinSerialize(BinFinanceRecord(magic, 46 + Len(description), 10, tx_type, 0, U64Max,
                                           -1, timestamp, status, Len(description),
                                           description)),
             0, <<BeBytes(magic, 4), <<tx_type>>, <<status>>, BeBytes(timestamp, 8), description>>)

\* whole binary records over: the magic and another number; the
\* discriminants 0..3 and 255; timestamps inside and outside the range of
\* instants, as u64; descriptions with both quotes, one, none, a lone quote,
\* no byte, a byte that is no UTF-8
BinFieldsInputs ==
    {BinFieldsInput(magic, tx_type, status, timestamp, description) :
        magic \in {MAGIC, MAGIC + 1},
        tx_type \in {0, 2, 3, 255},
        status \in {0, 1, 2, 3},
        timestamp \in {12, MaxInstantMillis + 1, I64Max + 1, U64Max},
        description \in {<<QUOTE, 97, QUOTE>>, <<QUOTE, QUOTE>>, <<QUOTE>>, <<97>>, <<>>,
                         <<QUOTE, 97>>, <<97, QUOTE>>, <<QUOTE, 255, QUOTE>>}}

\* values of a record_size field: none, one byte short of the fixed fields,
\* far more than any stream holds
SizeValues == {0, 45, 2147483647}

\* a record no binary reader decodes (its tx_type is none), with the record_size given
BadBinRecord(size) ==
    BinSerialize([BinFromFinData(Sample(3, <<97>>, 0)) EXCEPT !.tx_type = 3, !.record_size = size])

\* the binary stream of the records of txs, record k with the record_size
\* sizes[k] (as bytes), and after them, if bad = 1, a record that is not
\* decoded, of record_size 0, and the first record once more
SizedStream(txs, sizes, bad) ==
    Concat([k \in 1..Len(txs) |->
                BinSerialize([BinFromFinData(txs[k]) EXCEPT !.record_size = FromBeBytes(sizes[k])])])
        \o (IF bad = 1
            THEN BadBinRecord(0) \o BinSerialize([BinFromFinData(txs[1]) EXCEPT !.record_size = 0])
            ELSE <<>>)

\* the same stream with the record_size fields the writer computes
TwinStream(txs, bad) ==
    WellFormed(BIN_FORMAT, txs, HEADER_VALUES)
        \o (IF bad = 1
            THEN BadBinRecord(46 + 3) \o Encode(BIN_FORMAT, txs[1], HEADER_VALUES)
            ELSE <<>>)

\* binary streams that differ from the writer's in record_size fields only
RecordSizeInputs ==
    UNION {{RunInput("recordsize", txs, <<BIN_FORMAT>>, SizedStream(txs, sizes, bad), bad, sizes) :
                sizes \in [1..Len(txs) -> {BeBytes(v, 4) : v \in SizeValues}],
                bad \in {0, 1}} :
            txs \in FewTransactions \ {<<>>}}

\* the map of a text record whose keys are the field names and whose values
\* are `values`, in the order of the header
FieldsMap(values) == [k \in RequiredKeys |-> values[HeaderMap(HEADER_VALUES)[k]]]

\* the field texts of a well-formed record
BaseFields == CsvFromTransaction(Sample(1, <<97>>, 0), HeaderMap(HEADER_VALUES))

\* texts a numeric field is tried with: 5, the largest u64 and the number
\* after it, the smallest i64 and the number before it, the largest i64 and
\* the number after it, signed and padded numbers, no digits, a letter
NumberTexts ==
    {<<53>>, IntToString(U64Max), IntToString(U64Max + 1), IntToString(I64Min),
     IntToString(I64Min - 1), IntToString(I64Max), IntToString(I64Max + 1),
     <<PLUS, 53>>, <<MINUS, 48>>, <<SP, 53>>, <<53, SP>>, <<>>, <<PLUS>>, <<MINUS>>,
     <<53, 97>>, <<QUOTE, 53, QUOTE>>,
     IntToString(MaxInstantMillis), IntToString(MaxInstantMillis + 1),
     IntToString(AsU64(MinInstantMillis)), IntToString(AsU64(MinInstantMillis - 1))}

\* texts an enumeration field is tried with: the six tokens, a token in
\* lower case, capitalised, padded, quoted, cut short, and no text
TokenTexts ==
    {DEPOSIT, TRANSFER, WITHDRAWAL, SUCCESS, FAILURE, PENDING,
     <<100, 101, 112, 111, 115, 105, 116>>, <<68, 101, 112, 111, 115, 105, 116>>,
     <<115, 117, 99, 99, 101, 115, 115>>, <<83, 117, 99, 99, 101, 115, 115>>,
     DEPOSIT \o <<SP>>, <<SP>> \o SUCCESS, AddQuotes(DEPOSIT), AddQuotes(SUCCESS),
     <<68, 69, 80>>, <<>>}

\* texts the description is tried with: every text of at most MaxDescLen + 1
\* bytes of a letter, a quote and a backslash
DescriptionTexts == SeqsUpTo({97, QUOTE, BSLASH}, MaxDescLen + 1)

\* the texts the field `name` is tried with
FieldTexts(name) ==
    IF name \in {TX_TYPE, STATUS} THEN TokenTexts
    ELSE IF name = DESCRIPTION THEN DescriptionTexts
    ELSE NumberTexts

\* the assignments of texts to the eight fields that differ from BaseFields
\* in at most two fields
FieldsInputs ==
    {RunInput("fields", <<>>, <<CSV_FORMAT>>, <<>>, 0, [BaseFields EXCEPT ![i] = a, ![j] = b]) :
        <<i, a, j, b>> \in
            UNION {{<<i, a, j, b>> : a \in FieldTexts(HEADER_VALUES[i]),
                                     b \in FieldTexts(HEADER_VALUES[j])} :
                   <<i, j>> \in {p \in (1..CNT_VALUES) \X (1..CNT_VALUES) : p[1] <= p[2]}}}

\* the io::ErrorKinds a read fails with (Interrupted, which read_exact
\* retries, is none of them)
IoKinds == {"UnexpectedEof", "Other", "BrokenPipe"}

\* well-formed streams, to be read from a source whose read fails
FaultInputs ==
    {RunInput("fault", txs, <<fmt>>, WellFormed(fmt, txs, HEADER_VALUES), 0, <<>>) :
        fmt \in Formats,
        txs \in {<<>>, <<Sample(1, <<97>>, 0)>>, <<Sample(3, <<>>, 0), Sample(1, <<97>>, 0)>>}}

\* descriptions that are no UTF-8: a byte that no UTF-8 text holds, a lead
\* byte without its continuation byte, a continuation byte without its lead
BadUtf8 == {<<255>>, <<97, 195>>, <<128, 97>>}

\* streams of one record whose description is no UTF-8 (`keys` lists it) and
\* one more record
Utf8Inputs ==
    {RunInput("utf8", <<Sample(1, d, 0), Sample(2, <<97>>, 0)>>, <<fmt>>,
              WellFormed(fmt, <<Sample(1, d, 0), Sample(2, <<97>>, 0)>>, HEADER_VALUES), 0, <<d>>) :
        fmt \in Formats, d \in BadUtf8}

\* texts that are no integer of the field's type: a letter, a digit and a
\* letter, the number after the largest u64
BadNumbers == {<<120>>, <<49, 120>>, IntToString(U64Max + 1)}

\* the numeric fields, by their place in the header
NumericFields == {1, 3, 4, 5, 6}

\* the stream of the format fmt of one record whose fields are the texts v
FieldsStream(fmt, v) ==
    IF fmt = CSV_FORMAT THEN HeaderLine \o CsvSerialize(v)
    ELSE TextSerialize(FieldsMap(v), HEADER_VALUES)

\* CSV and text streams of one record with one numeric field that is no
\* integer (`keys` lists its text, `mark` says which field it is)
DigitsInputs ==
    {RunInput("digits", <<>>, <<fmt>>, FieldsStream(fmt, [BaseFields EXCEPT ![i] = bad]), i, <<bad>>) :
        fmt \in {CSV_FORMAT, TEXT_FORMAT}, i \in NumericFields, bad \in BadNumbers}

\* the reads that fail while a reader reads the stream of the run: of any
\* byte and of the end of a stream read from a source that fails, with any
\* kind of error; none for other streams
FaultsOf(in) ==
    IF in.family = "fault"
    THEN {[at |-> at, kind |-> kind] : at \in 1..(Len(in.bytes) + 1), kind \in IoKinds}
    ELSE {NoFault}

\* a format name that is none of the three
JSON_FORMAT == "json"

\* the streams of the format `from` of the records of txs: well-formed, or
\* with a record the reader rejects as record number `mark` (0: none)
SourceStreams(from, to, txs) ==
    {RunInput("convert", txs, <<from, to>>, WellFormed(from, txs, HEADER_VALUES), 0, <<>>)}
        \cup {RunInput("convert", txs, <<from, to>>, WithBadRecord(from, txs, at), at, <<>>) :
                at \in 1..(Len(txs) + 1)}

\* conversions from each format to each format and to a name that is none,
\* of streams that end cleanly or hold a record the reader rejects
ConvertInputs ==
    UNION {SourceStreams(from, to, txs) :
            from \in Formats, to \in Formats \cup {JSON_FORMAT},
            txs \in SeqsUpTo(PlainTransactions, MaxWrites)}

\* the reads that fail during a conversion: none, or the read of the first
\* byte, of a byte in the middle or of the end of a well-formed source
ConvertFaults(in) ==
    {NoFault} \cup
        (IF in.mark = 0
         THEN {[at |-> at, kind |-> "Other"] : at \in {1, Len(in.bytes) \div 2 + 1, Len(in.bytes) + 1}}
         ELSE {})

\* the two streams of a comparison: the records of lhs in one format, those
\* of rhs in another
CompareInput(lhs, rhs, lhs_format, rhs_format) ==
    [family |-> "compare", txs |-> lhs, rhs_txs |-> rhs, route |-> <<lhs_format, rhs_format>>,
     bytes |-> WellFormed(lhs_format, lhs, HEADER_VALUES),
     rhs_bytes |-> WellFormed(rhs_format, rhs, HEADER_VALUES), mark |-> 0, keys |-> <<>>]

\* the pairs of formats of the comparisons: the same format twice and two
\* pairs of different formats
ComparedFormats ==
    {<<CSV_FORMAT, CSV_FORMAT>>, <<BIN_FORMAT, TEXT_FORMAT>>, <<TEXT_FORMAT, CSV_FORMAT>>}

\* pairs of sequences of Transactions that differ in every field but the
\* description, and pairs of records that differ in their description only
ComparedTransactions ==
    (SeqsUpTo(PlainTransactions, MaxWrites) \X SeqsUpTo(PlainTransactions, MaxWrites))
        \cup {<<<<Sample(1, <<97>>, 0)>>, <<Sample(1, <<98>>, 0)>>>>,
              <<<<Sample(2, <<>>, 0), Sample(1, <<97>>, 0)>>, <<Sample(2, <<>>, 0), Sample(1, <<>>, 0)>>>>}

\* comparisons of streams of 0..MaxWrites records each
CompareInputs ==
    {CompareInput(p[1], p[2], f[1], f[2]) : p \in ComparedTransactions, f \in ComparedFormats}

\* the text b between two quotes holds no quote but after a backslash, and
\* every backslash of it that escapes has a byte after it
RECURSIVE WellEscaped(_)
WellEscaped(b) ==
    IF b = <<>> THEN TRUE
    ELSE IF b[1] = BSLASH THEN Len(b) >= 2 /\ WellEscaped(SubSeq(b, 3, Len(b)))
    ELSE b[1] # QUOTE /\ WellEscaped(Tail(b))

\* what stands between the quotes of a quoted CSV value: a letter, commas,
\* newlines, backslashes with the byte they escape, escaped quotes
QuotedBodies ==
    {b \in SeqsUpTo({97, COMMA, NL, BSLASH, QUOTE}, MaxDescLen + 1) : WellEscaped(b)}

\* what stands between the closing quote and the comma or newline after it
QuotedTails == {<<>>, <<SP>>, <<98>>, <<QUOTE>>, <<BSLASH>>}

\* the CSV stream of a row whose field number `at` is the quoted value of
\* the body b and the tail t, and of the row of tx
QuotedStream(at, b, t, tx) ==
    HeaderLine
        \o CsvSerialize([BaseFields EXCEPT ![at] = <<QUOTE>> \o b \o <<QUOTE>> \o t])
        \o Encode(CSV_FORMAT, tx, HEADER_VALUES)

\* CSV streams with a quoted value before a comma (as TX_TYPE) or before the
\* newline (as DESCRIPTION); `mark` is the place of the value, `keys` its
\* body and tail
QuotedInputs ==
    {RunInput("quoted", <<Sample(2, <<97>>, 0)>>, <<CSV_FORMAT>>,
              QuotedStream(at, b, t, Sample(2, <<97>>, 0)), at, <<b, t>>) :
        at \in {2, CNT_VALUES}, b \in QuotedBodies, t \in QuotedTails}

\* runs of one to MaxBlank lines that are empty or hold a space only
BlankRuns == SeqsUpTo({<<NL>>, <<SP, NL>>}, MaxBlank) \ {<<>>}

\* the blocks of txs, the lines sep after every block but the last
RECURSIVE SeparatedBlocks(_, _, _)
SeparatedBlocks(txs, order, sep) ==
    IF txs = <<>> THEN <<>>
    ELSE TextLines(TextFromFinData(txs[1]), order)
         \o (IF Len(txs) = 1 THEN <<>> ELSE sep)
         \o SeparatedBlocks(Tail(txs), order, sep)

\* text streams whose blocks are separated by a run of blank lines, with
\* blank lines (or none) before the first block and after the last, the
\* last of which may lack its newline; `mark` is the number of lines of the
\* run, `keys` the bytes before, between and after the blocks
SeparatedInputs ==
    {RunInput("separated", txs, <<TEXT_FORMAT>>,
              lead \o SeparatedBlocks(txs, order, Concat(run)) \o trail, Len(run),
              <<lead, Concat(run), trail>>) :
        txs \in FewTransactions, order \in IterationOrders(HEADER_VALUES),
        lead \in {<<>>, <<SP, NL, NL>>}, run \in BlankRuns,
        trail \in {<<>>, <<NL>>, <<SP>>, <<SP, NL, NL>>}}

\* the fields of a CSV line: one to three of them, each a letter or empty,
\* not the single empty field of a blank line
LineFields == SeqsUpTo({<<97>>, <<>>}, 3) \ {<<>>, <<<<>>>>}

\* CSV streams of two lines of such fields; `keys` lists the fields of the
\* first line, then those of the second, `mark` is the number of the first
RowsInputs ==
    {RunInput("rows", <<>>, <<CSV_FORMAT>>,
              JoinComma(first) \o <<NL>> \o JoinComma(second) \o <<NL>>, Len(first),
              first \o second) :
        first \in LineFields, second \in LineFields}

\* the lines `k: v` of a text block, one element each
PairLines(fields, order) ==
    [i \in 1..Len(order) |-> order[i] \o <<COLON, SP>> \o fields[order[i]] \o <<NL>>]

\* the text stream of the lines given as one block, and the block of tx after it
TwoBlocks(lines, tx, order) ==
    Concat(lines) \o <<NL>> \o TextSerialize(TextFromFinData(tx), order)

\* text streams of two blocks, line `mark` of the first with nothing between
\* its colon and its newline; `keys` holds the key of that line
EmptyValueInputs ==
    {RunInput("emptyvalue", <<Sample(1, <<97>>, 0), Sample(2, <<98>>, 0)>>, <<TEXT_FORMAT>>,
              TwoBlocks([PairLines(TextFromFinData(Sample(1, <<97>>, 0)), order)
                            EXCEPT ![at] = order[at] \o <<COLON, NL>>],
                        Sample(2, <<98>>, 0), order),
              at, <<order[at]>>) :
        order \in IterationOrders(HEADER_VALUES), at \in 1..CNT_VALUES}

\* text streams of two blocks, a line of the letter x without a colon put
\* before line `mark` of the first (mark 9: after its last line)
NoColonInputs ==
    {RunInput("nocolon", <<Sample(1, <<97>>, 0), Sample(2, <<98>>, 0)>>, <<TEXT_FORMAT>>,
              TwoBlocks(InsertAt(PairLines(TextFromFinData(Sample(1, <<97>>, 0)), order),
                                 at - 1, <<<<120, NL>>>>),
                        Sample(2, <<98>>, 0), order),
              at, <<<<120>>>>) :
        order \in IterationOrders(HEADER_VALUES), at \in 1..(CNT_VALUES + 1)}

\* text streams of one block of nine lines: the eight of a Transaction and
\* one more that gives the key `keys[1]` again, with another value, before
\* line `mark` (mark 9: after the last line)
DuplicateInputs ==
    {RunInput("duplicate", <<Sample(1, <<97>>, 0)>>, <<TEXT_FORMAT>>,
              Concat(InsertAt(PairLines(TextFromFinData(Sample(1, <<97>>, 0)), HEADER_VALUES),
                              at - 1,
                              <<k \o <<COLON, SP>> \o FieldText(Sample(2, <<98>>, 0), k)
                                  \o <<NL>>>>))
                \o <<NL>>,
              at, <<k>>) :
        k \in {HEADER_VALUES[i] : i \in 1..CNT_VALUES}, at \in {1, CNT_VALUES + 1}}

\* CSV and text streams that end with whitespace other than spaces (a tab,
\* a carriage return, a vertical tab, a form feed) after their last record
WhitespaceTailInputs ==
    {RunInput("tail", txs, <<fmt>>, WellFormed(fmt, txs, HEADER_VALUES) \o tail, Len(txs) + 1,
              <<tail>>) :
        fmt \in {CSV_FORMAT, TEXT_FORMAT}, txs \in FewTransactions,
        tail \in {<<9>>, <<SP, 9, SP>>, <<13, NL>>, <<11, 12>>}}

\* CSV streams without a header: empty, or of blank lines only, the last of
\* which may lack its newline
NoHeaderInputs ==
    {RunInput("noheader", <<>>, <<CSV_FORMAT>>, Concat(run) \o tail, Len(run), <<tail>>) :
        run \in BlankRuns \cup {<<>>}, tail \in {<<>>, <<SP>>}}

\* the Transaction of the timestamp runs with its timestamp at m milliseconds
AtInstant(m) == [Sample(1, <<97>>, 0) EXCEPT !.timestamp = Instant(m, 0)]

\* a Transaction for every instant of the range, those before the epoch
\* included, to be written and read back in each format
TimestampInputs ==
    {RunInput("timestamp", <<AtInstant(m)>>, <<fmt>>, <<>>, m, <<>>) :
        fmt \in Formats, m \in MinInstantMillis..MaxInstantMillis}

\* the stream of one record whose timestamp on the wire is the u64 v: eight
\* bytes of a binary record, the decimal text in a CSV row and a text block
WireStream(fmt, v) ==
    IF fmt = BIN_FORMAT
    THEN BinSerialize([BinFromFinData(Sample(1, <<97>>, 0)) EXCEPT !.timestamp = v])
    ELSE FieldsStream(fmt, [BaseFields EXCEPT ![6] = IntToString(v)])

\* a stream for every u64 as the timestamp on the wire (`mark`), in each format
WireInputs ==
    {RunInput("wire", <<>>, <<fmt>>, WireStream(fmt, v), v, <<>>) :
        fmt \in Formats, v \in 0..U64Max}

----------------------------------------------------------------------------
(* The driving programs *)

\* the effect of a write_transaction call that returned w, tx written
Wrote(w, tx) ==
    /\ writer' = w.wr
    /\ sink' = sink \o w.out
    /\ written' = IF w.res.ok THEN Append(written, tx) ELSE written
    /\ pc' = IF w.res.ok THEN pc ELSE "failed"

\* a write_transaction call of a driver that writes input.txs in order
\* (test_csv_writer, test_text_writer, test_bin_writer)
WriteTransaction ==
    /\ pc = "write"
    /\ Len(written) < Len(input.txs)
    /\ \E order \in IterationOrders(HEADER_VALUES) :
        Wrote(TxWriteTransaction(writer, input.txs[Len(written) + 1], order),
              input.txs[Len(written) + 1])
    /\ UNCHANGED <<stream, fault, reader, log, stage, rhs_stream, rhs_reader, printed, input>>

\* the driver opens a reader of the writer's format on the bytes written
\* (test_csv_writer: Cursor::new(csv_writer.stream.get_ref()))
OpenSink ==
    /\ \/ pc = "write" /\ Len(written) = Len(input.txs)
       \/ pc = "rewritten"
       \/ pc = "converted" /\ stage = Len(input.route) - 1
    /\ stream' = sink
    /\ fault' = NoFault
    /\ reader' = TxReaderNew(writer.name)
    /\ log' = <<>>
    /\ pc' = "reread"
    /\ UNCHANGED <<writer, sink, written, stage, rhs_stream, rhs_reader, printed, input>>

\* the effect of a read_transaction call that returned r
Returned(r) ==
    /\ reader' = r.rd
    /\ log' = Append(log, r.res)
    /\ pc' = IF r.res.kind = "Panic" THEN "panicked" ELSE pc

\* a read_transaction call of a driver that reads on, whatever it is returned
ReadTransaction ==
    /\ pc \in {"read", "reread"}
    /\ Len(log) < MaxReads
    /\ Returned(TxReadTransaction(stream, fault, reader))
    /\ UNCHANGED <<stream, fault, writer, sink, written, stage, rhs_stream, rhs_reader, printed, input>>

\* the effect of writing the Transaction tx just read with a fresh writer: w
\* what write_transaction returned
Rewrote(w, tx) ==
    /\ writer' = w.wr
    /\ sink' = w.out
    /\ written' = <<tx>>
    /\ pc' = IF w.res.ok THEN "rewritten" ELSE "failed"

\* the driver writes the Transaction it has read with a fresh writer of the
\* reader's format
ReEncode ==
    /\ pc = "read"
    /\ input.family = "escaped"
    /\ Len(log) = 1
    /\ log[1].kind = "Record"
    /\ \E order \in IterationOrders(HEADER_VALUES) :
        Rewrote(TxWriteTransaction(TxWriterNew(reader.name), log[1].val, order), log[1].val)
    /\ UNCHANGED <<stream, fault, reader, log, stage, rhs_stream, rhs_reader, printed, input>>

\* a loop that reads on after a read error
ConvertedReadsOn(r, w) ==
    /\ reader' = r.rd
    /\ log' = Append(log, r.res)
    /\ writer' = IF r.res.kind = "Record" THEN w.wr ELSE writer
    /\ sink' = IF r.res.kind = "Record" THEN sink \o w.out ELSE sink
    /\ written' = IF r.res.kind = "Record" /\ w.res.ok THEN Append(written, r.res.val)
                  ELSE written
    /\ pc' = IF r.res.kind = "EndOfData" THEN "converted" ELSE pc

\* the converter's loop after read_transaction returned r and, for a
\* Transaction read, write_transaction returned w
Converted(r, w) ==
    /\ reader' = r.rd
    /\ log' = Append(log, r.res)
    /\ writer' = IF r.res.kind = "Record" THEN w.wr ELSE writer
    /\ sink' = IF r.res.kind = "Record" THEN sink \o w.out ELSE sink
    /\ written' = IF r.res.kind = "Record" /\ w.res.ok THEN Append(written, r.res.val)
                  ELSE written
    /\ pc' = CASE r.res.kind = "EndOfData" -> "converted"
               [] r.res.kind = "Error" -> "failed"
               [] r.res.kind = "Panic" -> "panicked"
               [] r.res.kind = "Record" -> IF w.res.ok THEN pc ELSE "failed"

\* what write_transaction returns for what read_transaction returned
WriteRead(r, order) ==
    IF r.res.kind = "Record" THEN TxWriteTransaction(writer, r.res.val, order)
    ELSE WriteOut(Ok(TRUE), writer, <<>>)

\* one pass of the converter's loop, r what read_transaction returned
ConvertRead(r) ==
    \E order \in IterationOrders(HEADER_VALUES) : Converted(r, WriteRead(r, order))

\* one pass of the converter's loop: read one Transaction, write it
ConvertStep ==
    /\ pc = "convert"
    /\ ConvertRead(TxReadTransaction(stream, fault, reader))
    /\ UNCHANGED <<stream, fault, stage, rhs_stream, rhs_reader, printed, input>>

\* the next conversion of the chain reads what the one before has written
NextStage ==
    /\ pc = "converted"
    /\ stage < Len(input.route) - 1
    /\ stage' = stage + 1
    /\ stream' = sink
    /\ fault' = NoFault
    /\ reader' = TxReaderNew(input.route[stage + 1])
    /\ writer' = TxWriterNew(input.route[stage + 2])
    /\ sink' = <<>>
    /\ log' = <<>>
    /\ written' = <<>>
    /\ pc' = "convert"
    /\ UNCHANGED <<rhs_stream, rhs_reader, printed, input>>

\* the effect of a write_transaction call that returned w, by a caller that
\* logs what the call returned and goes on
Logged(w, tx) ==
    /\ writer' = w.wr
    /\ sink' = sink \o w.out
    /\ written' = IF w.res.ok THEN Append(written, tx) ELSE written
    /\ log' = Append(log, IF w.res.ok THEN [kind |-> "Done", val |-> tx] ELSE Error(w.res.err))

\* a write_transaction call of the caller of an instance made with an
\* unsupported name: any of its Transactions, as often as it likes
WriteAgain ==
    /\ pc = "read"
    /\ input.family = "unsupported"
    /\ Len(log) < MaxReads
    /\ \E k \in 1..Len(input.txs) : \E order \in IterationOrders(HEADER_VALUES) :
        Logged(TxWriteTransaction(writer, input.txs[k], order), input.txs[k])
    /\ UNCHANGED <<stream, fault, reader, pc, stage, rhs_stream, rhs_reader, printed, input>>

\* CsvTxRecord::to_transaction of the row of the field texts under the
\* standard header (test_csv_to_transaction)
ToTransaction ==
    /\ pc = "fields"
    /\ stage = 0
    /\ log' = Append(log, CsvToTransaction(input.keys, HeaderMap(HEADER_VALUES)))
    /\ stage' = 1
    /\ UNCHANGED <<stream, fault, reader, writer, sink, written, pc, rhs_stream, rhs_reader,
                   printed, input>>

\* TextFinanceRecord::to_fin_data of the block of the field texts
\* (test_text_to_finance_data)
ToFinData ==
    /\ pc = "fields"
    /\ stage = 1
    /\ log' = Append(log, TextToFinData(FieldsMap(input.keys)))
    /\ stage' = 2
    /\ UNCHANGED <<stream, fault, reader, writer, sink, written, pc, rhs_stream, rhs_reader,
                   printed, input>>

\* the binary record of a well-formed Transaction with the on-wire
\* description given
BinRecordWith(description) ==
    [BinFromFinData(Sample(1, <<>>, 0)) EXCEPT !.record_size = 46 + Len(description),
                                               !.desc_len = Len(description),
                                               !.description = description]

\* BinFinanceRecord::to_fin_data of a record whose description is the text
\* of the DESCRIPTION field (test_bin_to_finance_data)
ToFinDataBin ==
    /\ pc = "fields"
    /\ stage = 2
    /\ log' = Append(log, BinToFinData(BinRecordWith(input.keys[CNT_VALUES])))
    /\ stage' = 3
    /\ UNCHANGED <<stream, fault, reader, writer, sink, written, pc, rhs_stream, rhs_reader,
                   printed, input>>

\* the description field of the record that from_transaction / from_fin_data
\* of the format fmt makes of tx
DescriptionOnWire(fmt, tx) ==
    CASE fmt = CSV_FORMAT ->
            CsvFromTransaction(tx, HeaderMap(HEADER_VALUES))[HeaderMap(HEADER_VALUES)[DESCRIPTION]]
      [] fmt = TEXT_FORMAT -> TextFromFinData(tx)[DESCRIPTION]
      [] fmt = BIN_FORMAT -> BinFromFinData(tx).description

\* from_transaction / from_fin_data of a Transaction whose description is the
\* text of the DESCRIPTION field, taken as it is (test_csv_from_transaction,
\* test_text_from_finance_data, test_bin_from_finance_data)
FromTransaction ==
    /\ pc = "fields"
    /\ stage = 3
    /\ \E fmt \in Formats :
        /\ writer' = TxWriterNew(fmt)
        /\ sink' = DescriptionOnWire(fmt, Sample(1, input.keys[CNT_VALUES], 0))
    /\ stage' = 4
    /\ UNCHANGED <<stream, fault, reader, log, written, pc, rhs_stream, rhs_reader, printed, input>>

\* the lines the comparer prints: "Записи содержат разные транзакции",
\* "Записи разного размера", "Записи идентичны"
DifferentTransactions == "records hold different transactions"
DifferentSize == "records of different size"
Identical == "records are identical"

\* the read result r makes expect panic
Unexpected(r) == r.kind \in {"Error", "Panic"}

\* what the comparer prints in one pass of its loop for the read results l
\* and r, neither an error
Lines(l, r) ==
    IF l.kind = "EndOfData" /\ r.kind = "EndOfData" THEN <<Identical>>
    ELSE IF l.kind = "Record" /\ r.kind = "Record"
    THEN IF l.val # r.val THEN <<DifferentTransactions>> ELSE <<>>
    ELSE <<DifferentSize>>

\* the effect of one pass of the comparer's loop: l and r what the read
\* calls on the two readers returned (the second is not made once the first
\* has panicked); the loop goes on after two records only
Compared(l, r) ==
    /\ reader' = l.rd
    /\ log' = Append(log, l.res)
    /\ rhs_reader' = IF Unexpected(l.res) THEN rhs_reader ELSE r.rd
    /\ printed' = IF Unexpected(l.res) \/ Unexpected(r.res) THEN printed
                  ELSE printed \o Lines(l.res, r.res)
    /\ pc' = IF Unexpected(l.res) \/ Unexpected(r.res) THEN "panicked"
             ELSE IF l.res.kind = "Record" /\ r.res.kind = "Record" THEN pc
             ELSE "done"

\* one pass of the comparer's loop: read a record of each stream, compare
CompareStep ==
    /\ pc = "compare"
    /\ Compared(TxReadTransaction(stream, fault, reader),
                TxReadTransaction(rhs_stream, NoFault, rhs_reader))
    /\ UNCHANGED <<stream, fault, writer, sink, written, stage, rhs_stream, input>>

\* no TxWriter made yet
NoWriter == [variant |-> "None", name |-> "", header |-> <<>>]

\* TxWriter::new(stream, fin_format) on the sink
NewWriter ==
    /\ pc = "new"
    /\ writer' = TxWriterNew(input.route[1])
    /\ sink' = sink \o TxWriterNewWrites(input.route[1])
    /\ pc' = "write"
    /\ UNCHANGED <<stream, fault, reader, log, written, stage, rhs_stream, rhs_reader, printed, input>>

----------------------------------------------------------------------------
(* Spec: write input.txs with one writer, then read the bytes back *)

Init ==
    /\ input \in {RunInput("writeread", txs, <<fmt>>, <<>>, 0, <<>>) :
                    fmt \in Formats, txs \in RunTransactions}
    /\ writer = TxWriterNew(input.route[1])
    /\ reader = TxReaderNew(input.route[1])
    /\ stream = <<>>
    /\ fault = NoFault
    /\ log = <<>>
    /\ sink = <<>>
    /\ written = <<>>
    /\ pc = "write"
    /\ stage = 0
    /\ rhs_stream = <<>>
    /\ rhs_reader = TxReaderNew(input.route[1])
    /\ printed = <<>>

Next == WriteTransaction \/ OpenSink \/ ReadTransaction

Spec == Init /\ [][Next]_vars

----------------------------------------------------------------------------
(* SpecRead: read a stream made for the purpose *)

InitRead ==
    /\ input \in WellFormedInputs \cup EscapedInputs \cup TruncatedInputs
                    \cup BadRecordInputs \cup HeaderInputs \cup KeysInputs
    /\ writer = TxWriterNew(input.route[1])
    /\ reader = TxReaderNew(input.route[1])
    /\ stream = input.bytes
    /\ fault = NoFault
    /\ log = <<>>
    /\ sink = <<>>
    /\ written = <<>>
    /\ pc = "read"
    /\ stage = 0
    /\ rhs_stream = <<>>
    /\ rhs_reader = TxReaderNew(input.route[1])
    /\ printed = <<>>

NextRead == ReadTransaction \/ ReEncode \/ OpenSink

SpecRead == InitRead /\ [][NextRead]_vars

----------------------------------------------------------------------------
(* SpecChain: convert a binary stream to csv, that to text, that to bin *)

InitChain ==
    /\ input \in ChainInputs
    /\ writer = TxWriterNew(input.route[2])
    /\ reader = TxReaderNew(input.route[1])
    /\ stream = input.bytes
    /\ fault = NoFault
    /\ log = <<>>
    /\ sink = <<>>
    /\ written = <<>>
    /\ pc = "convert"
    /\ stage = 1
    /\ rhs_stream = <<>>
    /\ rhs_reader = TxReaderNew(input.route[1])
    /\ printed = <<>>

NextChain == ConvertStep \/ NextStage \/ OpenSink \/ ReadTransaction

SpecChain == InitChain /\ [][NextChain]_vars

----------------------------------------------------------------------------
(* SpecDecode: a caller that goes on calling an instance on a stream made
   for the purpose, whatever the calls return *)

InitDecode ==
    /\ input \in PermutedInputs \cup CommentInputs \cup MidKeyInputs \cup UnsupportedInputs
                    \cup UnterminatedInputs \cup TrailingInputs \cup BlankInputs
                    \cup BinFieldsInputs \cup RecordSizeInputs \cup QuotedInputs
                    \cup SeparatedInputs \cup RowsInputs
                    \cup EmptyValueInputs \cup NoColonInputs \cup DuplicateInputs
                    \cup TruncatedInputs \cup WhitespaceTailInputs \cup NoHeaderInputs
    /\ writer = TxWriterNew(input.route[1])
    /\ reader = TxReaderNew(input.route[1])
    /\ stream = input.bytes
    /\ fault = NoFault
    /\ log = <<>>
    /\ sink = <<>>
    /\ written = <<>>
    /\ pc = "read"
    /\ stage = 0
    /\ rhs_stream = <<>>
    /\ rhs_reader = TxReaderNew(input.route[1])
    /\ printed = <<>>

NextDecode == ReadTransaction \/ WriteAgain

SpecDecode == InitDecode /\ [][NextDecode]_vars

----------------------------------------------------------------------------
(* SpecFields: the records' conversions applied to eight field texts and to
   the Transaction described by the last of them *)

InitFields ==
    /\ input \in FieldsInputs
    /\ writer = TxWriterNew(input.route[1])
    /\ reader = TxReaderNew(input.route[1])
    /\ stream = input.bytes
    /\ fault = NoFault
    /\ log = <<>>
    /\ sink = <<>>
    /\ written = <<>>
    /\ pc = "fields"
    /\ stage = 0
    /\ rhs_stream = <<>>
    /\ rhs_reader = TxReaderNew(input.route[1])
    /\ printed = <<>>

NextFields == ToTransaction \/ ToFinData \/ ToFinDataBin \/ FromTransaction

SpecFields == InitFields /\ [][NextFields]_vars

----------------------------------------------------------------------------
(* SpecFault: read from a source whose read fails, or a stream whose bytes
   are no UTF-8 or whose numbers are no integers *)

InitFault ==
    /\ input \in FaultInputs \cup Utf8Inputs \cup DigitsInputs
    /\ fault \in FaultsOf(input)
    /\ writer = TxWriterNew(input.route[1])
    /\ reader = TxReaderNew(input.route[1])
    /\ stream = input.bytes
    /\ log = <<>>
    /\ sink = <<>>
    /\ written = <<>>
    /\ pc = "read"
    /\ stage = 0
    /\ rhs_stream = <<>>
    /\ rhs_reader = TxReaderNew(input.route[1])
    /\ printed = <<>>

NextFault == ReadTransaction

SpecFault == InitFault /\ [][NextFault]_vars

----------------------------------------------------------------------------
(* SpecConvert: one conversion of a source that ends cleanly, holds a record
   its reader rejects or fails to be read, to a destination format or to a
   name that is none *)

InitConvert ==
    /\ input \in ConvertInputs
    /\ fault \in ConvertFaults(input)
    /\ writer = TxWriterNew(input.route[2])
    /\ reader = TxReaderNew(input.route[1])
    /\ stream = input.bytes
    /\ log = <<>>
    /\ sink = <<>>
    /\ written = <<>>
    /\ pc = "convert"
    /\ stage = 1
    /\ rhs_stream = <<>>
    /\ rhs_reader = TxReaderNew(input.route[1])
    /\ printed = <<>>

NextConvert == ConvertStep

SpecConvert == InitConvert /\ [][NextConvert]_vars

----------------------------------------------------------------------------
(* SpecCompare: the comparer on two streams of records *)

InitCompare ==
    /\ input \in CompareInputs
    /\ writer = TxWriterNew(input.route[1])
    /\ reader = TxReaderNew(input.route[1])
    /\ stream = input.bytes
    /\ fault = NoFault
    /\ log = <<>>
    /\ sink = <<>>
    /\ written = <<>>
    /\ pc = "compare"
    /\ stage = 0
    /\ rhs_stream = input.rhs_bytes
    /\ rhs_reader = TxReaderNew(input.route[2])
    /\ printed = <<>>

NextCompare == CompareStep

SpecCompare == InitCompare /\ [][NextCompare]_vars

----------------------------------------------------------------------------
(* SpecOpen: make a writer on an empty sink, then write input.txs with it *)

InitOpen ==
    /\ input \in {RunInput("open", txs, <<fmt>>, <<>>, 0, <<>>) :
                    fmt \in Formats \cup {JSON_FORMAT}, txs \in RunTransactions}
    /\ writer = NoWriter
    /\ reader = TxReaderNew(input.route[1])
    /\ stream = <<>>
    /\ fault = NoFault
    /\ log = <<>>
    /\ sink = <<>>
    /\ written = <<>>
    /\ pc = "new"
    /\ stage = 0
    /\ rhs_stream = <<>>
    /\ rhs_reader = TxReaderNew(input.route[1])
    /\ printed = <<>>

NextOpen == NewWriter \/ WriteTransaction

SpecOpen == InitOpen /\ [][NextOpen]_vars

----------------------------------------------------------------------------
(* SpecTime: write a Transaction of each instant and read it back; read a
   record of each timestamp value on the wire *)

InitTime ==
    /\ input \in TimestampInputs \cup WireInputs
    /\ writer = TxWriterNew(input.route[1])
    /\ reader = TxReaderNew(input.route[1])
    /\ stream = input.bytes
    /\ fault = NoFault
    /\ log = <<>>
    /\ sink = <<>>
    /\ written = <<>>
    /\ pc = IF input.family = "timestamp" THEN "write" ELSE "read"
    /\ stage = 0
    /\ rhs_stream = <<>>
    /\ rhs_reader = TxReaderNew(input.route[1])
    /\ printed = <<>>

NextTime == WriteTransaction \/ OpenSink \/ ReadTransaction

SpecTime == InitTime /\ [][NextTime]_vars

----------------------------------------------------------------------------
(* The statements *)

\* the read result r is the Transaction tx
IsRecord(r, tx) == r.kind = "Record" /\ r.val = tx

\* the read result r is the clean end of data
IsEndOfData(r) == r.kind = "EndOfData"

\* the read result r is a format error
IsFormatError(r) == r.kind = "Error" /\ r.val.type = "WrongFormat"

\* the read result r is an I/O error
IsIoError(r) == r.kind = "Error" /\ r.val.type = "IoError"

\* tx with its timestamp cut to the millisecond
AtMillis(tx) == [tx EXCEPT !.timestamp = Instant(tx.timestamp.millis, 0)]

\* the results logged are the records of txs in order, then the end of data
InOrderThenEnd(txs) ==
    \A k \in 1..Len(log) :
        /\ k <= Len(txs) => IsRecord(log[k], txs[k])
        /\ k = Len(txs) + 1 => IsEndOfData(log[k])

\* C1: for each codec and every Transaction x with a whole-millisecond
\* timestamp, whatever its description holds (backslash, quote, comma, colon,
\* hash, newline), writing x with a fresh writer and reading the bytes with a
\* fresh reader of the same codec returns x, and the next read returns the
\* end of data.
C1_SameCodecRoundTrip ==
    (/\ input.family = "writeread"
     /\ Len(input.txs) = 1
     /\ input.txs[1].timestamp.submilli = 0
     /\ pc \in {"reread", "panicked"})
    => /\ pc # "panicked"
       /\ Len(log) >= 1 => IsRecord(log[1], input.txs[1])
       /\ Len(log) >= 2 => IsEndOfData(log[2])

\* C2: for every sequence S of Transactions, the empty one included, the
\* conversions bin -> csv, csv -> text, text -> bin end without an error and
\* the binary stream they yield decodes to the records of S in order, the
\* timestamps at millisecond precision, and then to the end of data.
C2_ChainPreserves ==
    input.family = "chain"
    => /\ pc \notin {"failed", "panicked"}
       /\ pc = "reread" =>
            InOrderThenEnd([k \in 1..Len(input.txs) |-> AtMillis(input.txs[k])])

\* C3: a quoted CSV or text value with backslash-escaped delimiters, quotes,
\* colons or hashes decodes to the description d with those bytes as data;
\* d written again with the same codec and decoded again yields d.
C3_EscapedRoundTrip ==
    input.family = "escaped"
    => /\ pc \notin {"failed", "panicked"}
       /\ Len(log) >= 1 => IsRecord(log[1], input.txs[1])

\* the bytes of the first k records of the binary stream of txs
RecordsEnd(txs, k) == Len(WellFormed(BIN_FORMAT, SubSeq(txs, 1, k), HEADER_VALUES))

\* the number of whole records in the first `mark` bytes of the binary stream of txs
WholeRecords(txs, mark) == Cardinality({k \in 1..Len(txs) : RecordsEnd(txs, k) <= mark})

\* C4: a binary stream that ends inside a record (in the magic, the fixed
\* fields or the description) makes the read of that record return an I/O
\* error; the read returns the end of data only when the stream ends at a
\* record boundary.
C4_TruncationIsIoError ==
    input.family = "truncated"
    => \A k \in 1..Len(log) :
        /\ k <= WholeRecords(input.txs, input.mark) => IsRecord(log[k], input.txs[k])
        /\ k = WholeRecords(input.txs, input.mark) + 1 =>
                IF input.mark = RecordsEnd(input.txs, k - 1)
                THEN IsEndOfData(log[k])
                ELSE IsIoError(log[k])

\* C5: on a stream of n >= 0 well-formed records (CSV: after the standard
\* header) read call k <= n returns record k and call n + 1 returns the end
\* of data, for each of the three readers.
C5_StreamOrder ==
    input.family = "wellformed" => InOrderThenEnd(input.txs)

\* C5 happens: a text reader has returned two records and then the end of data
C5_Witness ==
    /\ input.family = "wellformed"
    /\ reader.variant = "Text"
    /\ Len(input.txs) = 2
    /\ Len(log) = 3
    /\ IsRecord(log[2], input.txs[2])
    /\ IsEndOfData(log[3])

\* C6: once a read call of a reader has returned a format error or an I/O
\* error, no later read call of that reader returns a record.
C6_NoRecordAfterError ==
    \A i \in 1..Len(log) : \A j \in 1..Len(log) :
        (i < j /\ log[i].kind = "Error") => log[j].kind # "Record"

\* C7: the first read of a CSV reader accepts the header line only if its
\* tokens are the 8 standard ones in order; any other header line makes it
\* return a format error, with no byte after the header line consumed.
C7_HeaderCheck ==
    (input.family = "header" /\ Len(log) >= 1)
    => IF input.keys = HEADER_VALUES
       THEN IsRecord(log[1], input.txs[1])
       ELSE /\ IsFormatError(log[1])
            /\ Len(log) = 1 => reader.pos - 1 <= input.mark

\* C8: after n >= 1 successful write calls on one CSV writer the output is
\* the header line followed by exactly the n rows: the header occurs once,
\* before the first row.
C8_HeaderOnce ==
    (writer.variant = "Csv" /\ pc = "write" /\ Len(written) >= 1)
    => sink = HeaderLine
                \o Concat([k \in 1..Len(written) |->
                            Encode(CSV_FORMAT, written[k], HEADER_VALUES)])

\* C8 happens: a CSV writer has written two Transactions
C8_Witness ==
    /\ writer.variant = "Csv"
    /\ pc = "write"
    /\ Len(written) = 2
    /\ Len(sink) > Len(HeaderLine)

\* C9: a text block is decoded into a Transaction only if its keys are
\* exactly the 8 required ones; a block that misses one of them or has any
\* other key is rejected with a format error.
C9_ExactKeys ==
    (input.family = "keys" /\ Len(log) >= 1)
    => /\ log[1].kind = "Record" => Keys(input.keys) = RequiredKeys
       /\ Keys(input.keys) # RequiredKeys => IsFormatError(log[1])

\* C9 happens: a block of 8 keys, an unexpected one in place of a required
\* one, was rejected with a format error, and a block of 9 keys as well
C9_Witness ==
    /\ input.family = "keys"
    /\ Len(log) = 1
    /\ EXTRA_KEY \in Keys(input.keys)
    /\ Len(input.keys) >= CNT_VALUES
    /\ IsFormatError(log[1])

\* C10: a text block that lacks the required key K, with 7 keys or with 8
\* keys and an unexpected one in place of K, is rejected with a format error
\* whose reason names K as the missing key.
C10_MissingKeyNamed ==
    (input.family = "keys" /\ Len(log) >= 1)
    => \A K \in RequiredKeys \ Keys(input.keys) :
        /\ IsFormatError(log[1])
        /\ log[1].val.msg = "MissingRecord"
        /\ log[1].val.arg = K

\* C11: every permutation of the 8 key: value lines of a valid text block
\* decodes to the same Transaction, the one of the block in standard order,
\* and the read after it returns the end of data.
C11_KeyOrderIndependent ==
    input.family = "permuted" => InOrderThenEnd(input.txs)

\* C11 happens: a block that starts with DESCRIPTION and ends with TX_ID was
\* decoded into its Transaction
C11_Witness ==
    /\ input.family = "permuted"
    /\ input.keys = Reverse(HEADER_VALUES)
    /\ Len(log) = 2
    /\ IsRecord(log[1], input.txs[1])

\* the text tokenizer's locals after the bytes of c, read from the state st
\* with nothing in its buffers
AfterBytes(c, st) == TextLoop(c, 1, Len(c), TextScan(st, <<>>, <<>>, 1, <<>>))

\* C12: a whole comment line at a place where the text tokenizer waits for
\* the start of a record or of a key leaves the records decoded as they are
\* without it, and after the comment's newline the tokenizer is in the state
\* it was in before the `#`, with nothing buffered and nothing returned.
C12_CommentTransparent ==
    input.family = "comment"
    => /\ InOrderThenEnd(input.txs)
       /\ \A st \in {"WaitStartRecord", "WaitStartKey"} :
            AfterBytes(input.keys[1], st)
                = TextScan(st, <<>>, <<>>, Len(input.keys[1]) + 1, <<>>)

\* C12 happens: a comment line inside the stream of two blocks, and both
\* records and the end of data were read
C12_Witness ==
    /\ input.family = "comment"
    /\ Len(input.txs) = 2
    /\ input.mark > 0
    /\ Len(log) = 3
    /\ IsRecord(log[2], input.txs[2])
    /\ IsEndOfData(log[3])

\* C13: a `#` met while a key is being read begins a comment that is dropped
\* up to the end of the line, and the key goes on after it: the block decodes
\* as without the comment, the `#` and the comment's text are no part of the key.
C13_CommentMidKey ==
    input.family = "midkey" => InOrderThenEnd(input.txs)

\* C14: a TxReader and a TxWriter made with a name other than `bin`, `csv`,
\* `text` are the Unsupported variant, and every read_transaction and
\* write_transaction call on them, however many, returns a format error that
\* carries the name: never a record, the end of data or success; nothing is written.
C14_UnsupportedRejected ==
    input.family = "unsupported"
    => /\ reader.variant = "Unsupported"
       /\ writer.variant = "Unsupported"
       /\ sink = <<>>
       /\ \A k \in 1..Len(log) : IsFormatError(log[k]) /\ log[k].val.msg = input.route[1]

\* C14 happens: three calls on instances made with the name `CSV` have returned
C14_Witness ==
    /\ input.family = "unsupported"
    /\ input.route[1] = "CSV"
    /\ Len(log) = 3
    /\ log[3].kind = "Error"

\* C15: a CSV or text value that opens with a quote which no unescaped quote
\* closes before the end of the stream makes the read of its record return a
\* format error; the value is never returned as a description.
C15_UnterminatedQuote ==
    (input.family = "unterminated" /\ Len(log) >= input.mark)
    => IsFormatError(log[input.mark])

\* C16: a last CSV row without its newline, and a last text block without
\* the blank line after it or without the newline of its last line, is
\* returned as the last record, decoded as any other; it is not dropped and
\* not taken for the end of data, and the read after it returns the end of data.
C16_TrailingRecord ==
    input.family = "trailing" => InOrderThenEnd(input.txs)

\* C16 happens: the last of two text blocks, its last line without a
\* newline, was returned and the read after it returned the end of data
C16_Witness ==
    /\ input.family = "trailing"
    /\ reader.variant = "Text"
    /\ input.mark = 2
    /\ Len(input.txs) = 2
    /\ Len(log) = 3
    /\ IsRecord(log[2], input.txs[2])
    /\ IsEndOfData(log[3])

\* C17: lines of a CSV stream that are empty or hold whitespace only (spaces,
\* tabs, carriage returns), before the header or between rows, give no row,
\* no record and no error: the reads return what they return for the stream
\* without those lines.
C17_BlankLinesSkipped ==
    input.family = "blank" => InOrderThenEnd(input.txs)

\* the fields k of a binary record (magic, tx_type, status, timestamp,
\* description, as bytes) are those of a record to decode
Acceptable(k) ==
    /\ k[1] = <<89, 80, 66, 78>>
    /\ k[2][1] \in {0, 1, 2}
    /\ k[3][1] \in {0, 1, 2}
    /\ FromTimestampMillis(AsI64(FromBeBytes(k[4]))).ok
    /\ IsUtf8(k[5])
    /\ StartsWithQuote(k[5])
    /\ EndsWithQuote(k[5])

\* C18: a whole binary record is decoded into a Transaction if and only if
\* its magic is 0x5950424E, tx_type and status are in {0, 1, 2}, the
\* timestamp is a valid UTC instant and the description is valid UTF-8 that
\* begins and ends with a quote; if one of these fails the read returns a
\* format error and no Transaction.
C18_BinAcceptance ==
    (input.family = "binfields" /\ Len(log) >= 1)
    => IF Acceptable(input.keys) THEN log[1].kind = "Record" ELSE IsFormatError(log[1])

\* the bytes of the binary record of tx, field by field: magic (4),
\* record_size (4), tx_id (8), tx_type (1), from_user_id (8), to_user_id (8),
\* amount (8), timestamp (8), status (1), desc_len (4), description in quotes
Layout(tx) ==
    <<89, 80, 66, 78>> \o BeBytes(46 + Len(tx.description) + 2, 4) \o BeBytes(tx.tx_id, 8)
        \o <<TxTypeByte(tx.tx_type)>> \o BeBytes(tx.from_user_id, 8)
        \o BeBytes(tx.to_user_id, 8) \o BeBytes(AsU64(tx.amount), 8)
        \o BeBytes(AsU64(tx.timestamp.millis), 8) \o <<StatusByte(tx.status)>>
        \o BeBytes(Len(tx.description) + 2, 4) \o <<QUOTE>> \o tx.description \o <<QUOTE>>

\* C19: the binary writer emits for every Transaction the big-endian fields
\* magic | record_size | tx_id | tx_type | from_user_id | to_user_id | amount
\* | timestamp | status | desc_len | description, the description in one pair
\* of quotes, desc_len its length + 2 and record_size = 46 + desc_len; n
\* writes yield the n encodings one after the other in the order written.
C19_BinLayout ==
    (writer.variant = "Bin" /\ pc = "write")
    => sink = Concat([k \in 1..Len(written) |-> Layout(written[k])])

\* C19 happens: a binary writer has written two Transactions
C19_Witness ==
    /\ writer.variant = "Bin"
    /\ pc = "write"
    /\ Len(written) = 2
    /\ Len(sink) >= 2 * 56

RECURSIVE ReadResults(_, _, _)

\* the results of n read calls, the first of which returned r
ResultsFrom(s, r, n) == <<r.res>> \o ReadResults(s, r.rd, n - 1)

\* the results of n read calls on the stream s by the reader rd
ReadResults(s, rd, n) ==
    IF n = 0 THEN <<>> ELSE ResultsFrom(s, TxReadTransaction(s, NoFault, rd), n)

\* the bytes of the records among the results: 54 + desc_len each, desc_len
\* the length of the description and its two quotes
RECURSIVE Consumed(_)
Consumed(results) ==
    IF results = <<>> THEN 0
    ELSE (IF results[1].kind = "Record" THEN 54 + Len(results[1].val.description) + 2 ELSE 0)
            + Consumed(Tail(results))

\* C20: two binary streams that differ in the values of record_size fields
\* only give the same read results (records, errors, end of data), and after
\* every successful read 54 + desc_len bytes of the record are consumed,
\* whatever record_size says.
C20_RecordSizeIgnored ==
    input.family = "recordsize"
    => /\ log = ReadResults(TwinStream(input.txs, input.mark), BinTxReaderNew, Len(log))
       /\ (\A k \in 1..Len(log) : log[k].kind # "Error") => reader.pos = 1 + Consumed(log)

\* C20 happens: two records whose record_size fields are 0 and 2^31 - 1
\* were read
C20_Witness ==
    /\ input.family = "recordsize"
    /\ Len(input.txs) = 2
    /\ input.keys = <<BeBytes(0, 4), BeBytes(2147483647, 4)>>
    /\ Len(log) >= 2
    /\ IsRecord(log[2], input.txs[2])


\* the CSV row of tx under the standard header
Row(tx) ==
    IntToString(tx.tx_id) \o <<COMMA>> \o TxTypeName(tx.tx_type) \o <<COMMA>>
        \o IntToString(tx.from_user_id) \o <<COMMA>> \o IntToString(tx.to_user_id) \o <<COMMA>>
        \o IntToString(tx.amount) \o <<COMMA>> \o IntToString(AsU64(tx.timestamp.millis))
        \o <<COMMA>> \o StatusName(tx.status) \o <<COMMA>>
        \o <<QUOTE>> \o tx.description \o <<QUOTE>> \o <<NL>>

\* C21: after its header line the CSV writer emits for every Transaction one
\* row: the texts of TX_ID, TX_TYPE, FROM_USER_ID, TO_USER_ID, AMOUNT,
\* TIMESTAMP, STATUS, DESCRIPTION in this order, joined by single commas
\* without padding, the description in one pair of quotes and the other
\* fields unquoted, ended by exactly one newline.
C21_CsvRowForm ==
    (writer.variant = "Csv" /\ pc = "write" /\ written # <<>>)
    => sink = HeaderLine \o Concat([k \in 1..Len(written) |-> Row(written[k])])

\* C21 happens: a CSV writer has written a Transaction whose description
\* holds a comma and a newline
C21_Witness ==
    /\ writer.variant = "Csv"
    /\ pc = "write"
    /\ Len(written) = 1
    /\ written[1].description = <<COMMA, NL>>
    /\ sink # <<>>

\* the text s is a decimal integer of 64 bits: an optional sign and digits
\* whose value a u64 or an i64 holds
IsInteger64(s) ==
    /\ Unsigned(s) # <<>>
    /\ \A i \in 1..Len(Unsigned(s)) : Unsigned(s)[i] \in DIGIT0..(DIGIT0 + 9)
    /\ ParseDigits(Unsigned(s), 1, 0, IF s[1] = MINUS THEN -I64Min ELSE U64Max) >= 0

\* the field texts v are of the forms a decoder accepts
AcceptableFields(v) ==
    /\ v[2] \in {DEPOSIT, TRANSFER, WITHDRAWAL}
    /\ v[7] \in {SUCCESS, FAILURE, PENDING}
    /\ \A i \in {1, 3, 4, 5, 6} : IsInteger64(v[i])
    /\ StartsWithQuote(v[8]) /\ EndsWithQuote(v[8])

\* C22: the eight field texts decoded as a CSV row under the standard header
\* and decoded as a text block give either a format error both or the same
\* Transaction both; a Transaction is returned only for a TX_TYPE of DEPOSIT,
\* TRANSFER or WITHDRAWAL, a STATUS of SUCCESS, FAILURE or PENDING, numeric
\* fields that are 64-bit integers and a quote-wrapped DESCRIPTION.
C22_FieldSemanticsAgree ==
    (pc = "fields" /\ stage = 2)
    => /\ \/ IsFormatError(log[1]) /\ IsFormatError(log[2])
          \/ log[1].kind = "Record" /\ log[2] = log[1]
       /\ log[1].kind = "Record" => AcceptableFields(input.keys)

\* the read result r is a Transaction whose description is d
Describes(r, d) == r.kind = "Record" /\ r.val.description = d

\* the field texts but the description are those of a well-formed record
OthersWellFormed == \A i \in 1..(CNT_VALUES - 1) : input.keys[i] = BaseFields[i]

\* C23: every codec puts a description d on the wire as `"` d `"`, also when
\* d itself begins or ends with a quote; an on-wire description s that begins
\* and ends with a quote is decoded to s without its first and its last
\* character, and one that lacks the leading or the trailing quote is
\* rejected with a format error.
C23_OneQuotePair ==
    (pc = "fields" /\ stage = 4)
    => /\ sink = <<QUOTE>> \o input.keys[CNT_VALUES] \o <<QUOTE>>
       /\ \A k \in 1..3 :
            IF StartsWithQuote(input.keys[CNT_VALUES]) /\ EndsWithQuote(input.keys[CNT_VALUES])
            THEN \/ Describes(log[k],
                              SubSeq(input.keys[CNT_VALUES], 2, Len(input.keys[CNT_VALUES]) - 1))
                 \/ k < 3 /\ ~OthersWellFormed /\ IsFormatError(log[k])
            ELSE IsFormatError(log[k])

\* the read result r is the error e
IsError(r, e) == r.kind = "Error" /\ r.val = e

\* the source of the run fails with an I/O error that is no UnexpectedEof
Failing == fault.at > 0 /\ fault.kind # "UnexpectedEof"

\* C24: an I/O error of kind UnexpectedEof is the end of the stream (the
\* reads return what they return for the stream that ends before the byte
\* whose read failed), every other I/O error is returned as an IoError of
\* its kind and an IoError is returned for nothing else; a description that
\* is no UTF-8 and a numeric field that is no integer are returned as format
\* errors.
C24_ErrorConversion ==
    /\ \A k \in 1..Len(log) :
        /\ IsIoError(log[k]) => Failing /\ IsError(log[k], IoError(fault.kind))
        /\ Failing => log[k].kind = "Record" \/ IsError(log[k], IoError(fault.kind))
    /\ (Failing /\ Len(log) = MaxReads) => IsError(log[MaxReads], IoError(fault.kind))
    /\ (fault.at > 0 /\ fault.kind = "UnexpectedEof")
        => log = ReadResults(SubSeq(stream, 1, fault.at - 1), TxReaderNew(input.route[1]), Len(log))
    /\ (input.family = "utf8" /\ log # <<>>)
        => IsFormatError(log[1]) /\ log[1].val.msg = "Utf8Error"
    /\ (input.family = "digits" /\ log # <<>>)
        => IsFormatError(log[1]) /\ log[1].val = WrongFormat("ParseIntError", input.keys[1])

\* C24 happens: a read has returned a record and the next read, which
\* failed with an error that is no UnexpectedEof, an IoError
C24_Witness ==
    /\ Failing
    /\ Len(log) = 2
    /\ log[1].kind = "Record"
    /\ IsError(log[2], IoError("BrokenPipe"))

\* the read results q are records all
AllRecords(q) == \A k \in 1..Len(q) : q[k].kind = "Record"

\* the Transactions of the records q
Values(q) == [k \in 1..Len(q) |-> q[k].val]

\* the bytes the destination has received are those of the writes of the
\* Transactions txs in order, each text block in some order of its lines
Received(txs) ==
    CASE writer.variant = "Csv" ->
            sink = IF txs = <<>> THEN <<>> ELSE WellFormed(CSV_FORMAT, txs, HEADER_VALUES)
      [] writer.variant = "Bin" -> sink = WellFormed(BIN_FORMAT, txs, HEADER_VALUES)
      [] writer.variant = "Text" ->
            \E orders \in [1..Len(txs) -> IterationOrders(HEADER_VALUES)] :
                sink = Concat([k \in 1..Len(txs) |-> Encode(TEXT_FORMAT, txs[k], orders[k])])
      [] writer.variant = "Unsupported" -> sink = <<>>

Reported(line) == \E k \in 1..Len(printed) : printed[k] = line

\* the comparer has ended
ComparedDone == input.family = "compare" /\ pc = "done"

\* C26: given two streams with the same number of records, the comparer
\* reports that the records are identical if and only if the records at
\* every position are equal; if the records at some position differ it
\* reports different transactions and does not report identical records.
C26_EqualLengthOutcome ==
    (ComparedDone /\ Len(input.txs) = Len(input.rhs_txs))
    => /\ Reported(Identical) <=> input.txs = input.rhs_txs
       /\ input.txs # input.rhs_txs
            => Reported(DifferentTransactions) /\ ~Reported(Identical)

\* C27: given two streams with different numbers of records, the comparer
\* reports the different size and neither different transactions nor
\* identical records, whatever the records both streams have.
C27_UnequalLengthOutcome ==
    (ComparedDone /\ Len(input.txs) # Len(input.rhs_txs))
    => /\ Reported(DifferentSize)
       /\ ~Reported(DifferentTransactions)
       /\ ~Reported(Identical)

\* the text of the field `key` of tx, the description in one pair of quotes
ValueText(tx, key) ==
    IF key = DESCRIPTION THEN <<QUOTE>> \o tx.description \o <<QUOTE>> ELSE FieldText(tx, key)

\* the keys of `order` are the eight required keys, each once
EachKeyOnce(order) ==
    /\ Len(order) = CNT_VALUES
    /\ \A i \in 1..CNT_VALUES : \E j \in 1..CNT_VALUES : order[j] = HEADER_VALUES[i]

\* the text block of tx with its lines in `order`: eight lines `KEY: value`
\* and one empty line
Block(tx, order) ==
    Concat([i \in 1..CNT_VALUES |->
                order[i] \o <<COLON, SP>> \o ValueText(tx, order[i]) \o <<NL>>]) \o <<NL>>

\* C28: for every Transaction the text writer emits eight lines `KEY: value`,
\* one for each of the eight required keys in some order, the description in
\* one pair of quotes, and exactly one empty line after them; the blocks of
\* the Transactions written follow one another, each ended by its empty line.
C28_TextBlockForm ==
    (writer.variant = "Text" /\ pc = "write")
    => \E orders \in [1..Len(written) -> IterationOrders(HEADER_VALUES)] :
        /\ \A k \in 1..Len(written) : EachKeyOnce(orders[k])
        /\ sink = Concat([k \in 1..Len(written) |-> Block(written[k], orders[k])])

\* C28 happens: a text writer has written two Transactions
C28_Witness ==
    /\ writer.variant = "Text"
    /\ pc = "write"
    /\ Len(written) = 2
    /\ sink # <<>>
    /\ sink[Len(sink)] = NL

\* the text b with every escaping backslash dropped and the byte after it kept
RECURSIVE Unescaped(_)
Unescaped(b) ==
    IF b = <<>> THEN <<>>
    ELSE IF b[1] = BSLASH /\ Len(b) >= 2 THEN <<b[2]>> \o Unescaped(SubSeq(b, 3, Len(b)))
    ELSE <<b[1]>> \o Unescaped(Tail(b))

\* the value the tokenizer is to return for the quoted value of the run: the
\* opening quote, the body without its escaping backslashes, the closing
\* quote and the tail, trimmed
QuotedValue == Trim(<<QUOTE>> \o Unescaped(input.keys[1]) \o <<QUOTE>> \o input.keys[2])

\* C29: inside a quoted CSV value commas and newlines are bytes of the value
\* and end neither the field nor the row; a backslash is dropped and the byte
\* after it is a byte of the value, a quote included, and the value goes on;
\* the first quote that is not escaped closes the value, and after it the
\* next comma ends the field and the next newline ends the row.
C29_QuotedScanning ==
    input.family = "quoted"
    => /\ (Len(log) >= 1 /\ input.mark = 2)
            => IsError(log[1], WrongFormat("WrongTxType", QuotedValue))
       /\ (Len(log) >= 1 /\ input.mark = CNT_VALUES)
            => IF EndsWithQuote(QuotedValue)
               THEN Describes(log[1], SubSeq(QuotedValue, 2, Len(QuotedValue) - 1))
               ELSE IsError(log[1], WrongFormat("WrongDescription", QuotedValue))
       /\ Len(log) >= 2 => IsRecord(log[2], input.txs[1])
       /\ Len(log) >= 3 => IsEndOfData(log[3])

\* C29 happens: a quoted description with a newline and an escaped quote
\* between its quotes was returned with these two bytes, and the row after
\* it as the next record
C29_Witness ==
    /\ input.family = "quoted"
    /\ input.mark = CNT_VALUES
    /\ input.keys = <<<<NL, BSLASH, QUOTE>>, <<>>>>
    /\ Len(log) = 2
    /\ Describes(log[1], <<NL, QUOTE>>)
    /\ IsRecord(log[2], input.txs[1])

\* C30: in a text stream, a run of one or more lines that are empty or hold
\* spaces only ends the block before it and separates it from the next: the
\* blocks of the stream are returned one record each, in order, whatever the
\* length of the runs before, between and after them, and the end of data
\* is returned only after the last block.
C30_BlankLinesSeparate ==
    input.family = "separated" => InOrderThenEnd(input.txs)

\* C30 happens: two blocks with three blank lines between them, one of them
\* of a space, and blank lines before and after, gave two records and then
\* the end of data
C30_Witness ==
    /\ input.family = "separated"
    /\ input.mark = MaxBlank
    /\ input.keys = <<<<SP, NL, NL>>, <<NL, SP, NL, NL>>, <<SP, NL, NL>>>>
    /\ Len(input.txs) = 2
    /\ Len(log) = 3
    /\ IsRecord(log[1], input.txs[1])
    /\ IsRecord(log[2], input.txs[2])
    /\ IsEndOfData(log[3])

\* C31: every read of the bin, CSV and text readers returns a record, the
\* end of data or an error value: no read of any stream panics.
C31_DecodersTotal ==
    \A k \in 1..Len(log) : log[k].kind \in {"Record", "EndOfData", "Error"}

\* the fields of line k (1 or 2) of a stream of RowsInputs
FieldsOfLine(k) ==
    IF k = 1 THEN SubSeq(input.keys, 1, input.mark)
    ELSE SubSeq(input.keys, input.mark + 1, Len(input.keys))

\* C32: every newline outside a quoted value that comes after a field of the
\* row has started ends the row, also directly after a comma, and a comma
\* after a comma or at the start of a line delimits an empty field: the k-th
\* read of a CSV stream of two lines takes the fields of line k, no more and
\* no fewer (as no line is the header, it returns the wrong-header error
\* that names them).
C32_NewlineEndsRow ==
    input.family = "rows"
    => \A k \in 1..2 :
            Len(log) >= k => IsError(log[k], WrongFormat("WrongHeader", FieldsOfLine(k)))

\* C33: every newline outside a quoted value ends the current key:value
\* line, also when the value is empty and when the line has no colon; the
\* bytes of the next line never become part of the key or value. A block
\* with `KEY:` directly before the newline is decoded as the block with the
\* empty value for KEY, and after a block with such a line or with a line
\* without a colon the next block is returned as the next record.
C33_NewlineEndsPair ==
    /\ (input.family = "emptyvalue" /\ Len(log) >= 1)
            => log[1] = TextToFinData([TextFromFinData(input.txs[1])
                                            EXCEPT ![input.keys[1]] = <<>>])
    /\ (input.family \in {"emptyvalue", "nocolon"} /\ Len(log) >= 2)
            => IsRecord(log[2], input.txs[2])

\* C34: a text block in which a required key occurs twice (9 lines, 8
\* distinct keys) is rejected with a format error; it is not decoded with
\* one of the two values discarded.
C34_DuplicateKeyRejected ==
    (input.family = "duplicate" /\ Len(log) >= 1) => IsFormatError(log[1])

\* C35: once a read call of a reader has returned the end of data, with the
\* stream exhausted and left as it is, every later read call of that reader
\* returns the end of data too, whatever the state of its tokenizer.
C35_EndOfDataStable ==
    \A i \in 1..Len(log) : \A j \in 1..Len(log) :
        (i < j /\ IsEndOfData(log[i])) => IsEndOfData(log[j])

\* C35 happens: a CSV reader whose stream ended inside a quoted value has
\* returned the end of data on its second, third and fourth read
C35_Witness ==
    /\ reader.variant = "Csv"
    /\ reader.state = "WaitEndString"
    /\ reader.pos = Len(stream) + 1
    /\ Len(log) = 4
    /\ IsEndOfData(log[2])
    /\ IsEndOfData(log[3])
    /\ IsEndOfData(log[4])

\* the first byte of s at or after byte pos that is in the set B, Len(s) + 1
\* if there is none
FirstByte(s, pos, B) ==
    IF \E i \in pos..Len(s) : s[i] \in B
    THEN CHOOSE i \in pos..Len(s) : s[i] \in B /\ \A j \in pos..(i - 1) : s[j] \notin B
    ELSE Len(s) + 1

\* the first byte after the first line of s, at or after byte pos, that
\* holds more than spaces
AfterLine(s, pos) ==
    FirstByte(s, FirstByte(s, pos, (0..255) \ {SP, NL}), {NL}) + 1

\* the first byte a read of rd takes for a row or a block: a CSV reader
\* without a header takes the header line before it
FirstOfRecord(s, rd) ==
    IF rd.variant = "Csv" /\ rd.header = <<>> THEN AfterLine(s, rd.pos) ELSE rd.pos

\* byte i of s is whitespace (what trim removes), or in a text stream part
\* of a comment that began at or after byte from
BlankOrComment(s, rd, from, i) ==
    \/ s[i] \in AsciiWhitespace
    \/ /\ rd.variant = "Text"
       /\ \E j \in from..i : s[j] = HASH /\ \A m \in j..(i - 1) : s[m] # NL

C37_NoHeaderIsError ==
    input.family = "noheader"
    => /\ reader.header = <<>>
       /\ \A k \in 1..Len(log) : IsError(log[k], WrongFormat("WrongHeader", <<>>))

\* C37 happens: two reads of a CSV stream of three blank lines have returned
\* the wrong-header error
C37_Witness ==
    /\ input.family = "noheader"
    /\ stream = <<NL, SP, NL, NL>>
    /\ reader.pos = Len(stream) + 1
    /\ reader.header = <<>>
    /\ Len(log) = 2
    /\ IsError(log[1], WrongFormat("WrongHeader", <<>>))
    /\ IsError(log[2], WrongFormat("WrongHeader", <<>>))

\* C38: a TxWriter of any format writes nothing to the sink when it is made:
\* the sink is empty until a write_transaction call has succeeded, and the
\* header line of a CSV writer comes with its first record.
C38_NoOutputBeforeFirstWrite ==
    /\ written = <<>> => sink = <<>>
    /\ (writer.variant = "Csv" /\ Len(written) = 1)
            => sink = HeaderLine \o Encode(CSV_FORMAT, written[1], HEADER_VALUES)

\* C38 happens: a CSV writer was made, for no Transaction to write, and the
\* sink is empty
C38_Witness ==
    /\ pc = "write"
    /\ writer = CsvTxWriterNew
    /\ input.txs = <<>>
    /\ written = <<>>
    /\ sink = <<>>

\* m mod 2^64 of a signed m, and the signed value whose u64 image is v
\* (the word scaled to WordBits)
TwosComplement(m) == IF m < 0 THEN m + Pow2(WordBits) ELSE m
SignedOf(v) == IF v >= Pow2(WordBits - 1) THEN v - Pow2(WordBits) ELSE v

\* the record written to the sink holds the u64 v as its timestamp: bytes
\* 42..49 of a binary record, the decimal text as sixth field of the CSV row
\* and as the TIMESTAMP line of the text block
TimestampOnWire(v) ==
    CASE writer.variant = "Bin" -> SubSeq(sink, 42, 49) = BeBytes(v, 8)
      [] writer.variant = "Csv" ->
            sink = HeaderLine \o JoinComma([BaseFields EXCEPT ![6] = IntToString(v)]) \o <<NL>>
      [] writer.variant = "Text" ->
            \E order \in IterationOrders(HEADER_VALUES) :
                sink = TextSerialize(FieldsMap([BaseFields EXCEPT ![6] = IntToString(v)]), order)

\* C39: a Transaction whose timestamp is m milliseconds, m anywhere in the
\* range of instants and also below 0, is written by each codec with the
\* unsigned value m mod 2^64 as its timestamp and is read back with the
\* instant m; and a record with the unsigned value v on the wire is decoded
\* by the three decoders alike: with the instant of v taken as a signed
\* number if that is in the range of instants, with a format error if not.
C39_TimestampRoundTrip ==
    /\ (input.family = "timestamp" /\ Len(written) = 1)
            => TimestampOnWire(TwosComplement(input.mark))
    /\ (input.family = "timestamp" /\ pc = "reread" /\ Len(log) >= 1)
            => IsRecord(log[1], input.txs[1])
    /\ (input.family = "wire" /\ Len(log) >= 1)
            => IF SignedOf(input.mark) \in MinInstantMillis..MaxInstantMillis
               THEN IsRecord(log[1], AtInstant(SignedOf(input.mark)))
               ELSE IsFormatError(log[1])

\* C39 happens: the Transaction of one millisecond before the epoch was
\* written as a binary record with the largest u64 as its timestamp and read
\* back with its instant
C39_Witness ==
    /\ input.family = "timestamp"
    /\ input.mark = -1
    /\ writer.variant = "Bin"
    /\ pc = "reread"
    /\ Len(sink) >= 49
    /\ SubSeq(sink, 42, 49) = BeBytes(U64Max, 8)
    /\ Len(log) = 2
    /\ IsRecord(log[1], AtInstant(-1))
    /\ IsEndOfData(log[2])
====
